---------------------------- MODULE Spec2Model ----------------------------
(***************************************************************************)
(* Verification model of the LLGL render-system core:                      *)
(*   - D3D12RenderSystem GPU/CPU synchronisation (SyncGPU, the fence)      *)
(*   - the hardware object containers of the render systems                *)
(*   - D3D12RenderSystem device bring-up (CreateDevice)                    *)
(*   - Win32GLContext context negotiation (CreateContext)                  *)
(* Each subsystem has its own specification over the shared variables;     *)
(* the variables of the other subsystems are parked at a fixed value.      *)
(***************************************************************************)
EXTENDS Integers, Sequences, FiniteSets, TLC

VARIABLES
    \* ---- D3D12RenderSystem: fence_, fenceEvent_, cmdQueue_ and SyncGPU ----
    fenceVal,        \* value of ID3D12Fence fence_ on the GPU timeline
    cmdQueue,        \* commands submitted to cmdQueue_ and not yet executed
    fenceEvent,      \* fenceEvent_ is signalled (auto-reset Win32 event)
    waits,           \* values registered with SetEventOnCompletion, not yet reached
    fenceValue,      \* each caller's own counter, passed as UINT64& fenceValue
    syncPc,          \* position of the CPU thread inside SyncGPU
    syncCaller,      \* the caller whose SyncGPU call is in flight
    workSubmitted,   \* GPU work items submitted so far
    workCompleted,   \* GPU work items the GPU has finished
    workAtCall,      \* workSubmitted when the SyncGPU call in flight was entered
    syncResult,      \* outcome of the last finished SyncGPU call
    valueAtCall,     \* the caller's fenceValue when the call in flight was entered
    callFailed,      \* a native call of the SyncGPU call in flight (or last) failed
    \* ---- hardware object containers of the render systems ----
    registry,        \* entries of textures_, renderContexts_, shaders_, ...
    issued,          \* the handles the Create functions returned, in order
    releasedH,       \* handles whose Release by the owning system returned
    lastOp,          \* the last container operation and its outcome
    \* ---- D3D12RenderSystem: construction and CreateDevice ----
    devPc,           \* the step of the constructor that runs next
    devPass,         \* 1: CreateDevice on the default adapter, 2: the fallback
    levelIdx,        \* position of the loop of CreateDevice in featureLevels
    adapter,         \* IDXGIAdapter* adapter of CreateDevice()
    hr,              \* HRESULT hr of CreateDevice()
    device_,         \* ID3D12Device* device_
    featureLevel_,   \* D3D_FEATURE_LEVEL featureLevel_
    attempts,        \* the D3D12CreateDevice calls made so far, in order
    stepsDone,       \* constructor steps that have been executed
    ctorError,       \* the error the constructor threw, "" if none
    capsSeen,        \* the values QueryRenderingCaps returned, each with
                     \* whether another member function had run before the call
    langSeen,        \* the same for QueryShadingLanguage
    otherOps,        \* another member function ran after construction
    \* ---- Win32GLContext: CreateContext ----
    cpc,             \* position inside CreateContext of the context being created
    ctxCount,        \* contexts created or in creation so far
    sharedContext,   \* the prior context given for sharing (NoContext: nullptr)
    desc_,           \* desc_.multiSampling.enabled/.samples, desc_.profileOpenGL.extProfile
    context_,        \* context_: hDC (the window), pixelFormat, pixelFormatsMS, hGLRC
    stdRenderContext, \* local variable of CreateContext
    hasSharedContext_, \* hasSharedContext_
    sel,             \* locals of SelectPixelFormat and where it returns to
    gl,              \* native GL contexts: alive, the current one and its DC
    procs,           \* loaded extension procedures (process-wide pointers)
    env,             \* what the driver supports (fixed for a behaviour)
    surf,            \* SetPixelFormat answers of the current window so far
    hist,            \* observations: requested values, diagnostics, calls made
    ctxError,        \* the message CreateContext threw, "" if none
    \* ---- D3D11RenderSystem: textures ----
    texOp,           \* the last texture operation called, "" if none
    textureDesc,     \* the TextureDescriptor given to the last CreateTexture
    subTextureDesc,  \* the SubTextureDescriptor given to the last WriteTexture
    texture,         \* the D3D11Texture the operations work on (NoTexture: none)
    texOut,          \* status, native creation descriptor and update box produced
    \* ---- D3D11ResourceFlags: translation of descriptor flags ----
    flagOp,          \* the translation function applied, "" if none yet
    flagDesc,        \* the buffer or texture descriptor given to it
    flagOut          \* the D3D11 flags or the D3D11_USAGE it returned

fenceVars == <<fenceVal, cmdQueue, fenceEvent, waits, fenceValue, syncPc,
               syncCaller, workSubmitted, workCompleted, workAtCall, syncResult,
               valueAtCall, callFailed>>

regVars == <<registry, issued, releasedH, lastOp>>

capVars == <<capsSeen, langSeen, otherOps>>

devVars == <<devPc, devPass, levelIdx, adapter, hr, device_, featureLevel_,
             attempts, stepsDone, ctorError, capVars>>

ctxVars == <<cpc, ctxCount, sharedContext, desc_, context_, stdRenderContext,
             hasSharedContext_, sel, gl, procs, env, surf, hist, ctxError>>

texVars == <<texOp, textureDesc, subTextureDesc, texture, texOut>>

flagVars == <<flagOp, flagDesc, flagOut>>

vars == <<fenceVars, regVars, devVars, ctxVars, texVars, flagVars>>

----------------------------------------------------------------------------
(* Bounds of the model *)

\* callers that each own a fence-value counter (render contexts)
NumCallers == 2
\* cap of the callers' counters
MaxFence == 2
\* GPU work items submitted in one behaviour
MaxWork == 1
\* commands waiting in the command queue
MaxQueue == 2

Callers == 1..NumCallers

\* handles the Create functions hand out in one behaviour
MaxHandles == 2

\* largest sample count a descriptor requests
MaxSamples == 2
\* GLPlatformContext::maxNumPixelFormatsMS, scaled down
maxNumPixelFormatsMS == 2
\* contexts created one after the other in one behaviour
NumContexts == 2

\* bits of an int / unsigned int / UINT, scaled down from 32
UIntBits == 3
\* largest layer offset of a sub-texture descriptor
MaxLayerOffset == 3

----------------------------------------------------------------------------
(* D3D12RenderSystem: GPU synchronisation *)

S_OK == "S_OK"
E_FAIL == "E_FAIL"
FAILED(h) == h # S_OK

\* DXThrowIfFailed(hr, info): throws when hr is a failure code.
DXThrowIfFailed(h) == FAILED(h)

\* Variant: SyncGPU does not look at the result of a native call.
SyncGPU_ResultIgnored(h) == FALSE

\* SyncGPU, lines 432 and 436: each native result is passed to
\* DXThrowIfFailed before the next statement runs.
SyncGPU_Throws(h) == DXThrowIfFailed(h)

WorkCmd == [type |-> "work", value |-> 0]
SignalCmd(v) == [type |-> "signal", value |-> v]

\* CreateGPUSynchObjects: the fence starts at initialFenceValue, the event
\* is created non-signalled (auto-reset).
initialFenceValue == 0

CreateGPUSynchObjects ==
    /\ fenceVal = initialFenceValue
    /\ fenceEvent = FALSE
    /\ waits = {}

InitFence ==
    /\ CreateGPUSynchObjects
    /\ cmdQueue = <<>>
    /\ fenceValue \in [Callers -> 0..1]
    /\ syncPc = "idle"
    /\ syncCaller = 0
    /\ workSubmitted = 0
    /\ workCompleted = 0
    /\ workAtCall = 0
    /\ syncResult = "none"
    /\ valueAtCall = 0
    /\ callFailed = FALSE

\* A render context executes a command list on cmdQueue_ (the work that a
\* later SyncGPU has to wait for).  One CPU thread: not during SyncGPU.
SubmitWork ==
    /\ syncPc = "idle"
    /\ workSubmitted < MaxWork
    /\ Len(cmdQueue) < MaxQueue
    /\ cmdQueue' = Append(cmdQueue, WorkCmd)
    /\ workSubmitted' = workSubmitted + 1
    /\ UNCHANGED <<fenceVal, fenceEvent, waits, fenceValue, syncPc, syncCaller,
                   workCompleted, workAtCall, syncResult, valueAtCall, callFailed>>

\* ID3D12CommandQueue::Signal(fence_, v) as the GPU executes it: the fence is
\* set to v; a completion event registered for a value that is now reached
\* is raised.
FenceAfterSignal(v) == v

\* The GPU timeline executes the command at the head of the queue.
GPUStep ==
    /\ cmdQueue # <<>>
    /\ LET cmd == Head(cmdQueue) IN
         /\ cmdQueue' = Tail(cmdQueue)
         /\ IF cmd.type = "work"
              THEN /\ workCompleted' = workCompleted + 1
                   /\ UNCHANGED <<fenceVal, fenceEvent, waits>>
              ELSE /\ fenceVal' = FenceAfterSignal(cmd.value)
                   /\ waits' = {t \in waits : t > FenceAfterSignal(cmd.value)}
                   /\ fenceEvent' = (fenceEvent \/ (waits' # waits))
                   /\ UNCHANGED workCompleted
    /\ UNCHANGED <<fenceValue, syncPc, syncCaller, workSubmitted, workAtCall,
                   syncResult, valueAtCall, callFailed>>

\* SyncGPU, line 431: hr = cmdQueue_->Signal(fence_, fenceValue)
SyncGPU_Signal(c) ==
    /\ syncPc = "idle"
    /\ fenceValue[c] < MaxFence
    /\ Len(cmdQueue) < MaxQueue
    /\ cmdQueue' = Append(cmdQueue, SignalCmd(fenceValue[c]))
    /\ syncPc' = "signalled"
    /\ syncCaller' = c
    /\ workAtCall' = workSubmitted
    /\ valueAtCall' = fenceValue[c]
    /\ callFailed' = FALSE
    /\ UNCHANGED <<fenceVal, fenceEvent, waits, fenceValue, workSubmitted,
                   workCompleted, syncResult>>

\* SyncGPU, lines 431-432: the Signal call failed (nothing is enqueued),
\* DXThrowIfFailed throws.
SyncGPU_SignalFailed(c) ==
    /\ syncPc = "idle"
    /\ fenceValue[c] < MaxFence
    /\ syncCaller' = c
    /\ workAtCall' = workSubmitted
    /\ valueAtCall' = fenceValue[c]
    /\ callFailed' = TRUE
    /\ IF SyncGPU_Throws(E_FAIL)
         THEN syncResult' = "threw" /\ UNCHANGED syncPc
         ELSE syncPc' = "signalled" /\ UNCHANGED syncResult
    /\ UNCHANGED <<fenceVal, cmdQueue, fenceEvent, waits, fenceValue,
                   workSubmitted, workCompleted>>

\* SyncGPU, line 435: hr = fence_->SetEventOnCompletion(fenceValue, fenceEvent_)
\* The event is raised at once when the fence has already reached the value.
SyncGPU_SetEvent ==
    /\ syncPc = "signalled"
    /\ IF fenceVal >= fenceValue[syncCaller]
         THEN fenceEvent' = TRUE /\ UNCHANGED waits
         ELSE waits' = waits \cup {fenceValue[syncCaller]} /\ UNCHANGED fenceEvent
    /\ syncPc' = "waiting"
    /\ UNCHANGED <<fenceVal, cmdQueue, fenceValue, syncCaller, workSubmitted,
                   workCompleted, workAtCall, syncResult, valueAtCall, callFailed>>

\* SyncGPU, lines 435-436: SetEventOnCompletion failed (no event is
\* registered), DXThrowIfFailed throws.
SyncGPU_SetEventFailed ==
    /\ syncPc = "signalled"
    /\ callFailed' = TRUE
    /\ IF SyncGPU_Throws(E_FAIL)
         THEN syncPc' = "idle" /\ syncResult' = "threw"
         ELSE syncPc' = "waiting" /\ UNCHANGED syncResult
    /\ UNCHANGED <<fenceVal, cmdQueue, fenceEvent, waits, fenceValue, syncCaller,
                   workSubmitted, workCompleted, workAtCall, valueAtCall>>

\* The value the caller's counter holds after SyncGPU, line 440: ++fenceValue
NextFenceValue(v) == v + 1

\* SyncGPU, lines 437-441: WaitForSingleObjectEx returns once fenceEvent_ is
\* signalled (and resets it), then the caller's counter is incremented and
\* SyncGPU returns.
SyncGPU_Wait ==
    /\ syncPc = "waiting"
    /\ fenceEvent
    /\ fenceEvent' = FALSE
    /\ fenceValue' = [fenceValue EXCEPT ![syncCaller] = NextFenceValue(@)]
    /\ syncPc' = "idle"
    /\ syncResult' = IF workCompleted >= workAtCall THEN "synced" ELSE "early"
    /\ UNCHANGED <<fenceVal, cmdQueue, waits, syncCaller, workSubmitted,
                   workCompleted, workAtCall, valueAtCall, callFailed>>

----------------------------------------------------------------------------
(* Hardware object containers: Create / Release / resolve *)

\* Render-system instances: two Direct3D 11 systems and one Direct3D 12 system.
Systems == {"D3D11a", "D3D11b", "D3D12"}

IsD3D12(sys) == sys = "D3D12"

\* D3D12RenderSystem.h, HWObjectContainer members that are not commented out.
D3D12Containers == {"RenderContext", "Shader", "ShaderProgram", "GraphicsPipeline"}

\* D3D12 resource kinds whose container is commented out: Create returns
\* nullptr and the body of Release is empty.
D3D12Uncontained == {"VertexBuffer", "IndexBuffer", "ConstantBuffer", "Texture",
                     "Sampler", "RenderTarget"}

\* D3D11RenderSystem_Textures.cpp: textures_.
D3D11Containers == {"Texture"}

Containers(sys) == IF IsD3D12(sys) THEN D3D12Containers ELSE D3D11Containers

\* The Create and Release overloads a render system has.
KindsOf(sys) == IF IsD3D12(sys) THEN D3D12Containers \cup D3D12Uncontained
                ELSE D3D11Containers

\* The native object made by MakeUnique<T>() for the n-th created handle.
NativeObject(sys, kind, n) == [owner |-> sys, kind |-> kind, serial |-> n]

\* OwnershipRegistry.Insert (TakeOwnership): the entry maps the new handle to
\* the native object; the handle is unique among the entries.
TakeOwnership(reg, sys, kind, h, obj) ==
    reg \cup {[sys |-> sys, kind |-> kind, handle |-> h, obj |-> obj]}

Known(reg, sys, kind, h) ==
    \E e \in reg : e.sys = sys /\ e.kind = kind /\ e.handle = h

\* OwnershipRegistry.Remove (RemoveFromUniqueSet): removing an unknown or
\* already removed handle is InvalidArgument, not a silent no-op.
RemoveFromUniqueSet(reg, sys, kind, h) ==
    IF Known(reg, sys, kind, h)
      THEN [reg |-> {e \in reg : ~(e.sys = sys /\ e.kind = kind /\ e.handle = h)},
            result |-> "ok"]
      ELSE [reg |-> reg, result |-> "InvalidArgument"]

\* The outcome of resolving a handle: the native object, or InvalidArgument.
Resolved(obj) == [status |-> "ok", obj |-> obj]
InvalidArgument == [status |-> "InvalidArgument", obj |-> NativeObject("", "", 0)]

\* OwnershipRegistry.Resolve (LLGL_CAST, the checked downcast): the native
\* object of a handle of this registry instance, InvalidArgument otherwise.
CheckedCast(reg, sys, kind, h) ==
    IF Known(reg, sys, kind, h)
      THEN Resolved((CHOOSE e \in reg :
                        e.sys = sys /\ e.kind = kind /\ e.handle = h).obj)
      ELSE InvalidArgument

\* Whether the Create function of the kind registers the new object
\* (return TakeOwnership(...)) or returns nullptr.
CreateRegisters(sys, kind) == kind \in Containers(sys)

\* Whether the body of Release(kind&) calls RemoveFromUniqueSet or is empty.
\* (mutant: the bodies of Release(Shader&) and Release(Texture&) are commented
\* out like those of the buffer overloads)
ReleaseBodyCommentedOut(sys, kind) == kind \in Containers(sys) \ {"Shader", "Texture"}

ReleaseRemoves(sys, kind) == kind \in Containers(sys)

InitRegistry ==
    /\ registry = {}
    /\ issued = <<>>
    /\ releasedH = {}
    /\ lastOp = [op |-> "none"]

Handles == 1..Len(issued)

\* D3D11RenderSystem::CreateTexture, D3D12RenderSystem::CreateRenderContext,
\* CreateShader, CreateShaderProgram, CreateGraphicsPipeline: the new object
\* is registered and its handle returned.  D3D12RenderSystem::CreateVertexBuffer,
\* ..., CreateRenderTarget: return nullptr.
Create(sys, kind) ==
    /\ kind \in KindsOf(sys)
    /\ Len(issued) < MaxHandles
    /\ IF CreateRegisters(sys, kind)
         THEN LET h == Len(issued) + 1
                  obj == NativeObject(sys, kind, h)
              IN /\ registry' = TakeOwnership(registry, sys, kind, h, obj)
                 /\ issued' = Append(issued, [sys |-> sys, kind |-> kind, obj |-> obj])
                 /\ lastOp' = [op |-> "create", sys |-> sys, kind |-> kind,
                               handle |-> h, known |-> FALSE, result |-> "ok"]
         ELSE /\ lastOp' = [op |-> "create", sys |-> sys, kind |-> kind,
                            handle |-> 0, known |-> FALSE, result |-> "nullptr"]
              /\ UNCHANGED <<registry, issued>>
    /\ UNCHANGED releasedH

\* Release(kind&) of a render system, called with a handle of that static
\* type: RemoveFromUniqueSet on the kind's container, or an empty body.
Release(sys, h) ==
    /\ h \in Handles
    /\ issued[h].kind \in KindsOf(sys)
    /\ LET kind == issued[h].kind
           known == Known(registry, sys, kind, h)
           removed == RemoveFromUniqueSet(registry, sys, kind, h)
       IN IF ReleaseRemoves(sys, kind)
            THEN /\ registry' = removed.reg
                 /\ lastOp' = [op |-> "release", sys |-> sys, kind |-> kind,
                               handle |-> h, known |-> known, result |-> removed.result]
                 /\ releasedH' = IF removed.result = "ok" /\ issued[h].sys = sys
                                   THEN releasedH \cup {h} ELSE releasedH
            ELSE /\ lastOp' = [op |-> "release", sys |-> sys, kind |-> kind,
                               handle |-> h, known |-> known, result |-> "ok"]
                 /\ releasedH' = IF issued[h].sys = sys
                                   THEN releasedH \cup {h} ELSE releasedH
                 /\ UNCHANGED registry
    /\ UNCHANGED issued

\* A consumer resolves a handle: D3D11RenderSystem::UpdateGenericTexture,
\* QueryTextureDescriptor, GenerateMips (LLGL_CAST of the Texture&), and the
\* users of the D3D12 containers.
Resolve(sys, h) ==
    /\ h \in Handles
    /\ issued[h].kind \in Containers(sys)
    /\ LET kind == issued[h].kind IN
         lastOp' = [op |-> "resolve", sys |-> sys, kind |-> kind, handle |-> h,
                    known |-> Known(registry, sys, kind, h),
                    result |-> CheckedCast(registry, sys, kind, h)]
    /\ UNCHANGED <<registry, issued, releasedH>>

----------------------------------------------------------------------------
(* D3D12RenderSystem: construction and device negotiation *)

D3D_FEATURE_LEVEL_12_1 == 49408
D3D_FEATURE_LEVEL_12_0 == 49152
D3D_FEATURE_LEVEL_11_1 == 45312
D3D_FEATURE_LEVEL_11_0 == 45056
D3D_FEATURE_LEVEL_10_1 == 41216
D3D_FEATURE_LEVEL_10_0 == 40960
D3D_FEATURE_LEVEL_9_3 == 37632
D3D_FEATURE_LEVEL_9_2 == 37376
D3D_FEATURE_LEVEL_9_1 == 37120

\* (mutant: the candidate list in ascending order)
GetFeatureLevelsAscending ==
    << D3D_FEATURE_LEVEL_9_1, D3D_FEATURE_LEVEL_9_2, D3D_FEATURE_LEVEL_9_3,
       D3D_FEATURE_LEVEL_10_0, D3D_FEATURE_LEVEL_10_1, D3D_FEATURE_LEVEL_11_0,
       D3D_FEATURE_LEVEL_11_1, D3D_FEATURE_LEVEL_12_0, D3D_FEATURE_LEVEL_12_1 >>

GetFeatureLevels ==
    << D3D_FEATURE_LEVEL_12_1, D3D_FEATURE_LEVEL_12_0, D3D_FEATURE_LEVEL_11_1,
       D3D_FEATURE_LEVEL_11_0, D3D_FEATURE_LEVEL_10_1, D3D_FEATURE_LEVEL_10_0,
       D3D_FEATURE_LEVEL_9_3, D3D_FEATURE_LEVEL_9_2, D3D_FEATURE_LEVEL_9_1 >>

\* The adapters: nullptr selects the default (hardware) adapter, the WARP
\* adapter is the software adapter.
DefaultAdapter == "hardware"
WarpAdapter == "software"

NoDevice == [adapter |-> "none", level |-> 0]

\* State before the constructor body runs: the default member initialisers.
InitDevice ==
    /\ devPc = "CreateFactory"
    /\ devPass = 1
    /\ levelIdx = 1
    /\ adapter = DefaultAdapter
    /\ hr = S_OK
    /\ device_ = NoDevice
    /\ featureLevel_ = D3D_FEATURE_LEVEL_9_1
    /\ attempts = <<>>
    /\ stepsDone = <<>>
    /\ ctorError = ""
    /\ capsSeen = {}
    /\ langSeen = {}
    /\ otherOps = FALSE

\* A constructor step other than CreateDevice: it succeeds and the next step
\* follows, or its native call fails and DXThrowIfFailed throws.
CtorStep(step, next) ==
    /\ devPc = step
    /\ stepsDone' = Append(stepsDone, step)
    /\ \/ devPc' = next /\ UNCHANGED ctorError
       \/ devPc' = "threw" /\ ctorError' = step
    /\ UNCHANGED <<devPass, levelIdx, adapter, hr, device_, featureLevel_, attempts>>
    /\ UNCHANGED capVars

CreateFactory == CtorStep("CreateFactory", "QueryVideoAdapters")
QueryVideoAdapters == CtorStep("QueryVideoAdapters", "CreateDevice")
CreateRootSignature == CtorStep("CreateRootSignature", "CreateDXCommandQueue")
CreateDXCommandQueue == CtorStep("CreateDXCommandQueue", "constructed")

\* CreateGPUSynchObjects as a step of the constructor (device_->CreateFence).
CreateFence == CtorStep("CreateGPUSynchObjects", "CreateRootSignature")

\* Where the constructor goes when CreateDevice(hr, adapter, featureLevels)
\* returned false: after the first pass the software fallback, after the
\* second pass DXThrowIfFailed(hr, "failed to create D3D12 device").
\* (mutant: the result of the second pass is not checked)
AfterFailedPassUnchecked(pass, h) ==
    IF pass = 1 THEN "EnumWarpAdapter" ELSE "CreateGPUSynchObjects"

AfterFailedPass(pass, h) ==
    IF pass = 1 THEN "EnumWarpAdapter"
    ELSE IF DXThrowIfFailed(h) THEN "threw" ELSE "CreateGPUSynchObjects"

\* Whether the loop of CreateDevice(hr, adapter, featureLevels) stops at the
\* attempt with result h: "return true" on !FAILED(hr).
\* (mutant: the loop goes on after a success)
LoopNeverStops(h) == FALSE

LoopStopsAt(h) == ~FAILED(h)

\* One iteration of the loop of CreateDevice(hr, adapter, featureLevels):
\* hr = D3D12CreateDevice(adapter, level, &device_).
TryCreateDevice ==
    /\ devPc = "CreateDevice"
    /\ levelIdx <= Len(GetFeatureLevels)
    /\ \E result \in {S_OK, E_FAIL} :
         LET level == GetFeatureLevels[levelIdx]
             last == levelIdx = Len(GetFeatureLevels)
         IN /\ hr' = result
            /\ attempts' = Append(attempts,
                   [adapter |-> adapter, level |-> level, ok |-> ~FAILED(result)])
            /\ IF ~FAILED(result)
                 THEN /\ device_' = [adapter |-> adapter, level |-> level]
                 ELSE /\ UNCHANGED device_
            /\ IF LoopStopsAt(result)
                 THEN /\ featureLevel_' = level
                      /\ devPc' = "CreateGPUSynchObjects"
                      /\ UNCHANGED <<levelIdx, ctorError>>
                 ELSE /\ UNCHANGED featureLevel_
                      /\ IF last
                           THEN /\ devPc' = AfterFailedPass(devPass, result)
                                /\ levelIdx' = 1
                                /\ ctorError' = IF devPc' = "threw"
                                                  THEN "DeviceCreationFailed" ELSE ""
                           ELSE /\ levelIdx' = levelIdx + 1
                                /\ UNCHANGED <<devPc, ctorError>>
    /\ UNCHANGED <<devPass, adapter, stepsDone, capVars>>

\* factory_->EnumWarpAdapter(IID_PPV_ARGS(&adapter)); its result is not
\* checked: on failure adapter stays nullptr, the default adapter.
EnumWarpAdapter ==
    /\ devPc = "EnumWarpAdapter"
    /\ adapter' \in {WarpAdapter, adapter}
    /\ devPass' = 2
    /\ devPc' = "CreateDevice"
    /\ UNCHANGED <<levelIdx, hr, device_, featureLevel_, attempts, stepsDone, ctorError>>
    /\ UNCHANGED capVars

\* Variant: below feature level 10_0 the cube size falls with the level.
GetMaxCubeTextureDimensionDip(featureLevel) ==
    IF featureLevel >= D3D_FEATURE_LEVEL_11_0 THEN 16384
    ELSE IF featureLevel >= D3D_FEATURE_LEVEL_10_0 THEN 8192
    ELSE IF featureLevel >= D3D_FEATURE_LEVEL_9_3 THEN 512
    ELSE 4096

\* GetMaxTextureDimension, lines 50-56
GetMaxTextureDimension(featureLevel) ==
    IF featureLevel >= D3D_FEATURE_LEVEL_11_0 THEN 16384
    ELSE IF featureLevel >= D3D_FEATURE_LEVEL_10_0 THEN 8192
    ELSE IF featureLevel >= D3D_FEATURE_LEVEL_9_3 THEN 4096
    ELSE 2048

\* GetMaxCubeTextureDimension, lines 58-64
GetMaxCubeTextureDimension(featureLevel) ==
    IF featureLevel >= D3D_FEATURE_LEVEL_11_0 THEN 16384
    ELSE IF featureLevel >= D3D_FEATURE_LEVEL_10_0 THEN 8192
    ELSE IF featureLevel >= D3D_FEATURE_LEVEL_9_3 THEN 4096
    ELSE 512

\* GetMaxRenderTargets, lines 66-71
GetMaxRenderTargets(featureLevel) ==
    IF featureLevel >= D3D_FEATURE_LEVEL_10_0 THEN 8
    ELSE IF featureLevel >= D3D_FEATURE_LEVEL_9_3 THEN 4
    ELSE 1

\* d3d12.h, used at line 79
D3D12_CS_DISPATCH_MAX_THREAD_GROUPS_PER_DIMENSION == 65535

\* QueryRenderingCaps, lines 74-111, for level = GetFeatureLevel()
QueryRenderingCaps(level) ==
    LET maxThreadGroups == D3D12_CS_DISPATCH_MAX_THREAD_GROUPS_PER_DIMENSION
    IN [screenOrigin |-> "UpperLeft",
        clippingRange |-> "ZeroToOne",
        hasRenderTargets |-> TRUE,
        has3DTextures |-> TRUE,
        hasCubeTextures |-> TRUE,
        hasTextureArrays |-> level >= D3D_FEATURE_LEVEL_10_0,
        hasCubeTextureArrays |-> level >= D3D_FEATURE_LEVEL_10_1,
        hasSamplers |-> level >= D3D_FEATURE_LEVEL_9_3,
        hasConstantBuffers |-> TRUE,
        hasStorageBuffers |-> TRUE,
        hasUniforms |-> FALSE,
        hasGeometryShaders |-> level >= D3D_FEATURE_LEVEL_10_0,
        hasTessellationShaders |-> level >= D3D_FEATURE_LEVEL_11_0,
        hasComputeShaders |-> level >= D3D_FEATURE_LEVEL_10_0,
        hasInstancing |-> level >= D3D_FEATURE_LEVEL_9_3,
        hasOffsetInstancing |-> level >= D3D_FEATURE_LEVEL_9_3,
        hasViewportArrays |-> TRUE,
        hasConservativeRasterization |-> level >= D3D_FEATURE_LEVEL_11_1,
        maxNumTextureArrayLayers |->
            IF level >= D3D_FEATURE_LEVEL_10_0 THEN 2048 ELSE 256,
        maxNumRenderTargetAttachments |-> GetMaxRenderTargets(level),
        maxConstantBufferSize |-> 16384,
        max1DTextureSize |-> GetMaxTextureDimension(level),
        max2DTextureSize |-> GetMaxTextureDimension(level),
        max3DTextureSize |-> IF level >= D3D_FEATURE_LEVEL_10_0 THEN 2048 ELSE 256,
        maxCubeTextureSize |-> GetMaxCubeTextureDimension(level),
        maxAnisotropy |-> IF level >= D3D_FEATURE_LEVEL_9_2 THEN 16 ELSE 2,
        maxNumComputeShaderWorkGroups |->
            <<maxThreadGroups, maxThreadGroups,
              IF level >= D3D_FEATURE_LEVEL_11_0 THEN maxThreadGroups ELSE 1>>,
        maxComputeShaderWorkGroupSize |-> <<1024, 1024, 1024>>]

\* Variant: the first call answers before the feature level is looked up.
QueryShadingLanguageStale(featureLevel) ==
    IF langSeen = {} THEN "HLSL_2_0a"
    ELSE IF featureLevel >= D3D_FEATURE_LEVEL_11_0 THEN "HLSL_5_0"
    ELSE "HLSL_4_0"

\* QueryShadingLanguage, lines 113-123, for featureLevel = GetFeatureLevel()
QueryShadingLanguage(featureLevel) ==
    IF featureLevel >= D3D_FEATURE_LEVEL_11_0 THEN "HLSL_5_0"
    ELSE IF featureLevel >= D3D_FEATURE_LEVEL_10_1 THEN "HLSL_4_1"
    ELSE IF featureLevel >= D3D_FEATURE_LEVEL_10_0 THEN "HLSL_4_0"
    ELSE IF featureLevel >= D3D_FEATURE_LEVEL_9_3 THEN "HLSL_3_0"
    ELSE IF featureLevel >= D3D_FEATURE_LEVEL_9_2 THEN "HLSL_2_0b"
    ELSE "HLSL_2_0a"

\* The constructed render system is the only one that can be queried.
Constructed == devPc = "constructed"

devCoreVars == <<devPc, devPass, levelIdx, adapter, hr, device_, featureLevel_,
                 attempts, stepsDone, ctorError>>

\* A returned value, recorded with the point of the session it was
\* returned at.
Returned(value) == [value |-> value, afterOther |-> otherOps]

\* A call of QueryRenderingCaps() const on the constructed render system.
Call_QueryRenderingCaps ==
    /\ Constructed
    /\ capsSeen' = capsSeen \cup {Returned(QueryRenderingCaps(featureLevel_))}
    /\ UNCHANGED <<devCoreVars, langSeen, otherOps>>

\* A call of QueryShadingLanguage() const on the constructed render system.
Call_QueryShadingLanguage ==
    /\ Constructed
    /\ langSeen' = langSeen \cup {Returned(QueryShadingLanguage(featureLevel_))}
    /\ UNCHANGED <<devCoreVars, capsSeen, otherOps>>

\* Any other member function of the constructed render system: none of them
\* assigns featureLevel_ (its only assignment is line 568 of CreateDevice).
OtherOperation ==
    /\ Constructed
    /\ otherOps' = TRUE
    /\ UNCHANGED <<devCoreVars, capsSeen, langSeen>>

----------------------------------------------------------------------------
(* Win32GLContext: context negotiation *)

\* The multi-sample pixel formats of the driver, best first.
MSFormats == 1..maxNumPixelFormatsMS

\* The format ChoosePixelFormat returns for the standard descriptor.
StdFormat == maxNumPixelFormatsMS + 1

\* What a read of pixelFormatsMS past its end can yield.
GarbageFormats == 0..StdFormat

\* The lists wglChoosePixelFormatARB can fill in: the 1..maxNumPixelFormatsMS
\* best matching formats.
MSFormatLists == { [i \in 1..n |-> i] : n \in 1..maxNumPixelFormatsMS }

NoContext == [hGLRC |-> 0, pixelFormat |-> 0, pixelFormatsMS |-> <<>>]

Descriptors ==
    [enabled : BOOLEAN, samples : 0..MaxSamples, extProfile : BOOLEAN]

\* What the driver offers: whether wglChoosePixelFormatARB can be loaded and
\* the sample counts it finds formats for.
Drivers ==
    { e \in [msaa : SUBSET (1..MaxSamples), pixelFormatProcs : BOOLEAN] :
        ~e.pixelFormatProcs => e.msaa = {} }

NewWindow == [ok |-> {}, bad |-> {}]

NewHist(d) ==
    [queriedEnabled |-> d.enabled, queriedSamples |-> d.samples,
     queriedExtProfile |-> d.extProfile,
     copied |-> 0, diag |-> {}, aaResult |-> "none", share |-> "none",
     nativeFailed |-> FALSE, selected |-> 0, probes |-> 0,
     glMultisample |-> FALSE, pastEnd |-> FALSE,
     extResult |-> "none", baseline |-> 0, baselineCurrent |-> FALSE]

\* Diagnostics written to Log::StdErr / Log::StdOut.
ErrAntiAliasingNotSupported == "multi-sample anti-aliasing is not supported"
MsgReduced == "reduced multi-samples for anti-aliasing"
MsgNoMSContext == "failed to create multi-sample anti-aliasing"
MsgNoExtProfile == "failed to create extended OpenGL profile"
MsgNoProfileSelect == "failed to select OpenGL profile"
MsgNotActivated == "failed to active OpenGL render context (wglMakeCurrent)"
MsgNotDeleted == "failed to delete OpenGL render context"

Log(h, msg) == [h EXCEPT !.diag = @ \cup {msg}]

NativeFailure(h) == [h EXCEPT !.nativeFailed = TRUE]

\* State of a Win32GLContext before its constructor body runs, for a new
\* descriptor d and the prior context prior (NoContext: none).
BeginContext(d, prior) ==
    /\ cpc' = "CreateContext"
    /\ sharedContext' = prior
    /\ desc_' = d
    /\ context_' = [window |-> ctxCount' * 10, pixelFormat |-> 0,
                    pixelFormatsMS |-> <<>>, hGLRC |-> 0]
    /\ stdRenderContext' = 0
    /\ hasSharedContext_' = FALSE
    /\ sel' = [msIndex |-> 0, wasStd |-> FALSE, wantAA |-> FALSE, ret |-> ""]
    /\ surf' = NewWindow
    /\ hist' = NewHist(d)
    /\ ctxError' = ""

InitContext ==
    /\ cpc = "CreateContext"
    /\ ctxCount = 1
    /\ sharedContext = NoContext
    /\ desc_ \in Descriptors
    /\ context_ = [window |-> 10, pixelFormat |-> 0, pixelFormatsMS |-> <<>>,
                   hGLRC |-> 0]
    /\ stdRenderContext = 0
    /\ hasSharedContext_ = FALSE
    /\ sel = [msIndex |-> 0, wasStd |-> FALSE, wantAA |-> FALSE, ret |-> ""]
    /\ gl = [alive |-> {}, current |-> 0, dc |-> 0]
    /\ procs = [choosePixelFormatARB |-> FALSE, createContextAttribsARB |-> FALSE]
    /\ env \in Drivers
    /\ surf = NewWindow
    /\ hist = NewHist(desc_)
    /\ ctxError = ""

\* The handle of the native context created at a site of CreateContext
\* ("std": line 103, "ms": line 125, "ext": line 151) of the n-th context.
NewHandle(n, site) ==
    n * 10 + (CASE site = "std" -> 1 [] site = "ms" -> 2 [] site = "ext" -> 3)

\* The sample counts for which wglChoosePixelFormatARB finds a format.
SupportedSamples == IF env.pixelFormatProcs THEN env.msaa ELSE {}

\* CopyPixelFormat(sourceContext)
CopyPixelFormat(ctx, source) ==
    [ctx EXCEPT !.pixelFormat = source.pixelFormat,
                !.pixelFormatsMS = source.pixelFormatsMS]

\* SelectPixelFormat, line 361: wantAntiAliasFormat
WantAntiAliasFormat(d, ctx) == d.enabled /\ ctx.pixelFormatsMS # <<>>

\* Entry of SelectPixelFormat (through SetupDeviceContextAndPixelFormat):
\* the locals msPixelFormatIndex and wasStandardFormatUsed.
EnterSelect(d, ctx, ret) ==
    [msIndex |-> 0, wasStd |-> FALSE, wantAA |-> WantAntiAliasFormat(d, ctx),
     ret |-> ret]

\* CreateContext, lines 95-100: copy the pixel format of the shared context
\* when multi-sampling is enabled, get the device context, select a format.
CreateContext_Begin ==
    /\ cpc = "CreateContext"
    /\ LET copy == desc_.enabled /\ sharedContext # NoContext
           ctx == IF copy THEN CopyPixelFormat(context_, sharedContext) ELSE context_
       IN /\ context_' = ctx
          /\ hist' = [hist EXCEPT !.copied = IF copy THEN ctx.pixelFormat ELSE 0]
          /\ sel' = EnterSelect(desc_, ctx, "CreateStd")
    /\ cpc' = "SelectPixelFormat"
    /\ UNCHANGED <<ctxCount, sharedContext, desc_, stdRenderContext,
                   hasSharedContext_, gl, procs, env, surf, ctxError>>

\* The answers SetPixelFormat can give for format f on the current window:
\* a window answers the same for the same format.
SetPixelFormatAnswers(f) ==
    IF f \in surf.ok THEN {TRUE}
    ELSE IF f \in surf.bad THEN {FALSE}
    ELSE BOOLEAN

\* Whether the loop of SelectPixelFormat takes the next entry of
\* pixelFormatsMS (line 368).
TakesMSFormat(s) == s.wantAA /\ s.msIndex < maxNumPixelFormatsMS

\* One iteration of the loop of SelectPixelFormat, lines 366-402.
SelectPixelFormat_Step ==
    /\ cpc = "SelectPixelFormat"
    /\ \E garbage \in GarbageFormats, chosen \in {0, StdFormat}, accepted \in BOOLEAN :
         LET takeMS == TakesMSFormat(sel)
             inList == sel.msIndex + 1 <= Len(context_.pixelFormatsMS)
             f1 == IF takeMS
                     THEN IF inList THEN context_.pixelFormatsMS[sel.msIndex + 1]
                          ELSE garbage
                     ELSE context_.pixelFormat
             useStd == f1 = 0
             f2 == IF useStd THEN chosen ELSE f1
             wasStd == sel.wasStd \/ useStd
             h0 == IF takeMS /\ ~inList
                     THEN [hist EXCEPT !.pastEnd = TRUE] ELSE hist
             h1 == IF useStd /\ sel.wantAA
                     THEN Log(h0, ErrAntiAliasingNotSupported) ELSE h0
         IN /\ (takeMS /\ ~inList) \/ garbage = 0
            /\ useStd \/ chosen = 0
            /\ sel' = [sel EXCEPT !.msIndex = IF takeMS THEN @ + 1 ELSE @,
                                  !.wasStd = wasStd]
            /\ context_' = [context_ EXCEPT !.pixelFormat = f2]
            /\ IF f2 = 0
                 THEN /\ accepted = FALSE
                      /\ cpc' = "Threw"
                      /\ ctxError' = "failed to select pixel format"
                      /\ hist' = NativeFailure(h1)
                      /\ UNCHANGED surf
                 ELSE /\ accepted \in SetPixelFormatAnswers(f2)
                      /\ IF accepted
                           THEN /\ surf' = [surf EXCEPT !.ok = @ \cup {f2}]
                                /\ cpc' = sel.ret
                                /\ hist' = [h1 EXCEPT !.selected = f2]
                                /\ UNCHANGED ctxError
                           ELSE /\ surf' = [surf EXCEPT !.bad = @ \cup {f2}]
                                /\ hist' = NativeFailure(h1)
                                /\ IF wasStd
                                     THEN /\ cpc' = "Threw"
                                          /\ ctxError' = "failed to set pixel format"
                                     ELSE UNCHANGED <<cpc, ctxError>>
    /\ UNCHANGED <<ctxCount, sharedContext, desc_, stdRenderContext,
                   hasSharedContext_, gl, procs, env>>

\* wglDeleteContext succeeds only on a live context; a deleted context is
\* no longer current.
wglDeleteContext(g, rc) ==
    [g EXCEPT !.alive = @ \ {rc}, !.current = IF @ = rc THEN 0 ELSE @,
              !.dc = IF g.current = rc THEN 0 ELSE @]

\* wglMakeCurrent(hDC, rc) when it succeeds.
wglMakeCurrent(g, dc, rc) == [g EXCEPT !.current = rc, !.dc = dc]

\* The answers of wglMakeCurrent(hDC, rc): a null rc releases the current
\* context and succeeds, a handle that is not alive fails.
wglMakeCurrentAnswers(g, rc) ==
    IF rc = 0 THEN {TRUE} ELSE IF rc \in g.alive THEN BOOLEAN ELSE {FALSE}

\* A DeleteGLContext that zeroes the handle without deleting the context.
DeleteGLContextLeaks(rc, g, h) == { [rc |-> 0, gl |-> g, hist |-> h] }

\* DeleteGLContext(renderContext): the handle is zeroed only when the
\* native deletion succeeded. Outcomes: [rc, gl, hist].
DeleteGLContext(rc, g, h) ==
    { [rc |-> IF ok THEN 0 ELSE rc,
       gl |-> IF ok THEN wglDeleteContext(g, rc) ELSE g,
       hist |-> IF ok THEN h ELSE Log(NativeFailure(h), MsgNotDeleted)] :
      ok \in IF rc \in g.alive THEN BOOLEAN ELSE {FALSE} }

\* CreateGLContext, line 225: the context creates its own hardware context.
CreatesOwnHardwareContext(prior) == prior = NoContext \/ prior.hGLRC = 0

\* wglCreateContext / wglCreateContextAttribsARB: a new handle, or 0.
\* Outcomes: [rc, gl, hist].
NativeCreate(useExtProfile, site, g, h) ==
    { [rc |-> NewHandle(ctxCount, site),
       gl |-> [g EXCEPT !.alive = @ \cup {NewHandle(ctxCount, site)}],
       hist |-> h] }
    \cup { [rc |-> 0, gl |-> g, hist |-> NativeFailure(h)] }
    \cup { [rc |-> 0, gl |-> g, hist |-> Log(NativeFailure(h), msg)] :
           msg \in IF useExtProfile
                     THEN {"invalid version for OpenGL profile",
                           "invalid OpenGL profile"}
                     ELSE {} }

\* CreateGLContext(useExtProfile, sharedContext), lines 220-262.
\* Outcomes: [ret, hasShared, gl, hist].
CreateGLContext(useExtProfile, site, prior, g, h) ==
    LET own == CreatesOwnHardwareContext(prior)
        made == IF own THEN NativeCreate(useExtProfile, site, g, h)
                ELSE {[rc |-> prior.hGLRC, gl |-> g, hist |-> h]}
        After(m) ==
            IF m.rc = 0
              THEN {[ret |-> 0, hasShared |-> ~own, gl |-> m.gl, hist |-> m.hist]}
              ELSE { [ret |-> m.rc, hasShared |-> ~own,
                      gl |-> wglMakeCurrent(m.gl, context_.window, m.rc),
                      hist |-> m.hist] :
                     x \in wglMakeCurrentAnswers(m.gl, m.rc) \ {FALSE} }
                   \cup
                   UNION {
                     { [ret |-> 0, hasShared |-> ~own, gl |-> d.gl, hist |-> d.hist] :
                       d \in DeleteGLContext(m.rc, m.gl,
                                Log(NativeFailure(m.hist), MsgNotActivated)) } :
                     x \in wglMakeCurrentAnswers(m.gl, m.rc) \ {TRUE} }
    IN UNION { After(m) : m \in made }

\* A CreateContext that goes on without checking the standard context.
AfterStdContextUnchecked(rc, wantAA) ==
    IF wantAA THEN "SetupAntiAliasing" ELSE "ExtProfile"

\* CreateContext, lines 105-109: where it continues after the standard
\* render context rc was (not) created.
AfterStdContext(rc, wantAA) ==
    IF rc = 0 THEN "Threw"
    ELSE IF wantAA THEN "SetupAntiAliasing" ELSE "ExtProfile"

\* CreateContext, lines 102-109: the standard render context.
CreateContext_Std ==
    /\ cpc = "CreateStd"
    /\ \E o \in CreateGLContext(FALSE, "std", sharedContext, gl, hist) :
         /\ stdRenderContext' = o.ret
         /\ hasSharedContext_' = o.hasShared
         /\ gl' = o.gl
         /\ hist' = [o.hist EXCEPT !.baselineCurrent = o.ret # 0]
         /\ cpc' = AfterStdContext(o.ret, desc_.enabled /\ ~o.hasShared)
         /\ ctxError' = IF cpc' = "Threw"
                          THEN "failed to create standard OpenGL render context"
                          ELSE ctxError
    /\ UNCHANGED <<ctxCount, sharedContext, desc_, context_, sel, procs, env, surf>>

\* SetupAntiAliasing, lines 411-415, and the else branch of CreateContext
\* (lines 130-137) when it returns false.
SetupAntiAliasing_Load ==
    /\ cpc = "SetupAntiAliasing"
    /\ IF procs.choosePixelFormatARB \/ env.pixelFormatProcs
         THEN /\ procs' = [procs EXCEPT !.choosePixelFormatARB = TRUE]
              /\ cpc' = IF desc_.samples > 0 THEN "ProbeSamples"
                        ELSE "AntiAliasingDone"
              /\ UNCHANGED <<desc_, hist>>
         ELSE /\ hist' = [Log(hist, ErrAntiAliasingNotSupported)
                            EXCEPT !.aaResult = "false"]
              /\ desc_' = [desc_ EXCEPT !.enabled = FALSE, !.samples = 0]
              /\ cpc' = "ExtProfile"
              /\ UNCHANGED procs
    /\ UNCHANGED <<ctxCount, sharedContext, context_, stdRenderContext,
                   hasSharedContext_, sel, gl, env, surf, ctxError>>

\* A step-down that gives up at once instead of trying the next lower count.
NextLowerSamplesGivesUp(samples) == 0

\* A step-down that leaves the sample count as it is.
NextLowerSamplesStuck(samples) == samples

\* SetupAntiAliasing, line 461: --desc_.multiSampling.samples
NextLowerSamples(samples) == samples - 1

\* SetupAntiAliasing, lines 417-468: one iteration of the step-down loop.
SetupAntiAliasing_Probe ==
    /\ cpc = "ProbeSamples"
    /\ desc_.samples > 0
    /\ hist' = [hist EXCEPT !.probes = @ + 1]
    /\ IF desc_.samples \in env.msaa
         THEN /\ \E formats \in MSFormatLists :
                   context_' = [context_ EXCEPT !.pixelFormatsMS = formats]
              /\ cpc' = "AntiAliasingDone"
              /\ UNCHANGED desc_
         ELSE /\ context_' = [context_ EXCEPT !.pixelFormatsMS = <<>>]
              /\ desc_' = [desc_ EXCEPT !.samples = NextLowerSamples(@)]
              /\ cpc' = IF NextLowerSamples(desc_.samples) > 0 THEN "ProbeSamples"
                        ELSE "AntiAliasingDone"
    /\ UNCHANGED <<ctxCount, sharedContext, stdRenderContext, hasSharedContext_,
                   sel, gl, procs, env, surf, ctxError>>

\* SetupAntiAliasing, lines 470-485 (it returns true), then CreateContext,
\* lines 114-122: delete the standard context and recreate the window.
SetupAntiAliasing_Return ==
    /\ cpc = "AntiAliasingDone"
    /\ LET h1 == IF desc_.samples < hist.queriedSamples
                   THEN Log(hist, MsgReduced) ELSE hist
           h2 == [h1 EXCEPT !.aaResult = "true", !.glMultisample = desc_.enabled]
       IN \E d \in DeleteGLContext(stdRenderContext, gl, h2) :
            /\ stdRenderContext' = d.rc
            /\ gl' = d.gl
            /\ hist' = d.hist
    /\ context_' = [context_ EXCEPT !.window = @ + 1]
    /\ surf' = NewWindow
    /\ sel' = EnterSelect(desc_, context_, "RecreateStd")
    /\ cpc' = "SelectPixelFormat"
    /\ UNCHANGED <<ctxCount, sharedContext, desc_, hasSharedContext_, procs,
                   env, ctxError>>

\* CreateContext, lines 124-128: the render context on the recreated window.
CreateContext_RecreateStd ==
    /\ cpc = "RecreateStd"
    /\ \E o \in CreateGLContext(FALSE, "ms", sharedContext, gl, hist) :
         /\ stdRenderContext' = o.ret
         /\ hasSharedContext_' = o.hasShared
         /\ gl' = o.gl
         /\ hist' = IF o.ret = 0 THEN Log(o.hist, MsgNoMSContext) ELSE o.hist
    /\ cpc' = "ExtProfile"
    /\ UNCHANGED <<ctxCount, sharedContext, desc_, context_, sel, procs, env,
                   surf, ctxError>>

\* A profile step that keeps the standard context although the extended one
\* was created.
ActiveAfterExtProfileKeepsBaseline(stdRC, extRC) == stdRC

\* CreateContext, line 156: context_.hGLRC = extRenderContext
ActiveAfterExtProfile(stdRC, extRC) == extRC

\* What the profile step did: the standard context it started from and how
\* it ended ("created", "failed", "unavailable").
ExtOutcome(h, stdRC, result) ==
    [h EXCEPT !.extResult = result, !.baseline = stdRC]

\* CreateContext, lines 140-172: take the standard context, then replace it
\* by an extended-profile context if one is requested and can be created.
CreateContext_ExtProfile ==
    /\ cpc = "ExtProfile"
    /\ LET ctx == [context_ EXCEPT !.hGLRC = stdRenderContext]
       IN IF desc_.extProfile /\ ~hasSharedContext_
            THEN \E loaded \in BOOLEAN :
                   /\ procs.createContextAttribsARB => loaded
                   /\ procs' = [procs EXCEPT !.createContextAttribsARB = loaded]
                   /\ IF loaded
                        THEN \E o \in CreateGLContext(TRUE, "ext", sharedContext,
                                                     gl, hist) :
                               /\ hasSharedContext_' = o.hasShared
                               /\ IF o.ret # 0
                                    THEN \E d \in DeleteGLContext(stdRenderContext,
                                                                  o.gl, o.hist) :
                                           /\ context_' = [ctx EXCEPT !.hGLRC =
                                                ActiveAfterExtProfile(
                                                    stdRenderContext, o.ret)]
                                           /\ stdRenderContext' = d.rc
                                           /\ gl' = d.gl
                                           /\ hist' = ExtOutcome(d.hist,
                                                stdRenderContext, "created")
                                           /\ UNCHANGED desc_
                                    ELSE /\ context_' = ctx
                                         /\ gl' = o.gl
                                         /\ hist' = ExtOutcome(
                                                Log(o.hist, MsgNoExtProfile),
                                                stdRenderContext, "failed")
                                         /\ desc_' = [desc_ EXCEPT !.extProfile = FALSE]
                                         /\ UNCHANGED stdRenderContext
                        ELSE /\ context_' = ctx
                             /\ hist' = ExtOutcome(
                                    Log(NativeFailure(hist), MsgNoProfileSelect),
                                    stdRenderContext, "unavailable")
                             /\ desc_' = [desc_ EXCEPT !.extProfile = FALSE]
                             /\ UNCHANGED <<stdRenderContext, hasSharedContext_, gl>>
            ELSE /\ context_' = ctx
                 /\ UNCHANGED <<desc_, stdRenderContext, hasSharedContext_, gl,
                                procs, hist>>
    /\ cpc' = "Activate"
    /\ UNCHANGED <<ctxCount, sharedContext, sel, env, surf, ctxError>>

\* A sharing condition that forgets whether the hardware context is reused.
ShareListsWantedIgnoringReuse(prior, hasShared, d) ==
    prior # NoContext /\ ~d.extProfile

\* CreateContext, line 186: explicit resource sharing is wanted.
ShareListsWanted(prior, hasShared, d) ==
    prior # NoContext /\ ~hasShared /\ ~d.extProfile

\* The answers of wglShareLists(source, target).
wglShareLists(g, source, target) ==
    IF source \in g.alive /\ target \in g.alive THEN BOOLEAN ELSE {FALSE}

\* A CreateContext without the check of line 175.
FinalCheckSkipped(rc) == FALSE

\* CreateContext, line 175: if (!context_.hGLRC) throw
FinalCheckFails(rc) == rc = 0

\* CreateContext, lines 174-197: the final checks, activation and sharing.
CreateContext_Activate ==
    /\ cpc = "Activate"
    /\ \E activated \in wglMakeCurrentAnswers(gl, context_.hGLRC),
          sharedOK \in BOOLEAN :
         LET share == ShareListsWanted(sharedContext, hasSharedContext_, desc_)
             failed == FinalCheckFails(context_.hGLRC)
         IN /\ IF ~failed /\ activated /\ share
                 THEN sharedOK \in wglShareLists(gl, sharedContext.hGLRC,
                                                 context_.hGLRC)
                 ELSE sharedOK = FALSE
            /\ IF failed
                 THEN /\ cpc' = "Threw"
                      /\ ctxError' = "failed to create OpenGL render context"
                      /\ UNCHANGED <<gl, hist>>
                 ELSE IF ~activated
                   THEN /\ cpc' = "Threw"
                        /\ ctxError' = "failed to activate OpenGL render context"
                        /\ hist' = NativeFailure(hist)
                        /\ UNCHANGED gl
                   ELSE /\ gl' = wglMakeCurrent(gl, context_.window, context_.hGLRC)
                        /\ IF share /\ ~sharedOK
                             THEN /\ cpc' = "Threw"
                                  /\ ctxError' =
                                       "failed to share resources from OpenGL render context"
                                  /\ hist' = [NativeFailure(hist)
                                                EXCEPT !.share = "failed"]
                             ELSE /\ cpc' = "Done"
                                  /\ hist' = IF share
                                               THEN [hist EXCEPT !.share = "ok"]
                                               ELSE hist
                                  /\ UNCHANGED ctxError
    /\ UNCHANGED <<ctxCount, sharedContext, desc_, context_, stdRenderContext,
                   hasSharedContext_, sel, procs, env, surf>>

\* What a later context sees of a constructed context it is given as the
\* shared context: its context_ members.
AsSharedContext(ctx) ==
    [hGLRC |-> ctx.hGLRC, pixelFormat |-> ctx.pixelFormat,
     pixelFormatsMS |-> ctx.pixelFormatsMS]

\* GLContext::Create / the constructor, lines 27-50: after a context has
\* been constructed another one is created with it as the shared context.
CreateNextContext ==
    /\ cpc = "Done"
    /\ ctxCount < NumContexts
    /\ ctxCount' = ctxCount + 1
    /\ \E d \in Descriptors : BeginContext(d, AsSharedContext(context_))
    /\ UNCHANGED <<gl, procs, env>>

\* DeleteContext, line 201: if (!hasSharedContext_)
OwnsHardwareContext(hasShared) == ~hasShared

\* ~Win32GLContext / DeleteContext, lines 51-54 and 199-209: a constructed
\* context is destroyed. Whether GLContext::Active() is this context is not
\* decided by this class: either answer is taken.
DeleteContext ==
    /\ cpc = "Done"
    /\ cpc' = "Destroyed"
    /\ IF OwnsHardwareContext(hasSharedContext_)
         THEN \E isActive \in BOOLEAN :
                LET g == IF isActive THEN wglMakeCurrent(gl, 0, 0) ELSE gl
                IN \E d \in DeleteGLContext(context_.hGLRC, g, hist) :
                     /\ context_' = [context_ EXCEPT !.hGLRC = d.rc]
                     /\ gl' = d.gl
                     /\ hist' = d.hist
         ELSE UNCHANGED <<context_, gl, hist>>
    /\ UNCHANGED <<ctxCount, sharedContext, desc_, stdRenderContext,
                   hasSharedContext_, sel, procs, env, surf, ctxError>>

----------------------------------------------------------------------------
(* D3D11RenderSystem: texture creation and update *)

\* Values of an unsigned int; an int is kept as its bit pattern.
UIntRange == 2 ^ UIntBits
UInts == 0..(UIntRange - 1)

\* static_cast<UINT>(v) and unsigned arithmetic: modulo 2^bits.
ToUInt(v) == v % UIntRange

\* The int a bit pattern stands for (two's complement).
ToInt(u) == IF u >= UIntRange \div 2 THEN u - UIntRange ELSE u

\* enum class TextureType
TextureTypes ==
    {"Texture1D", "Texture2D", "Texture3D", "TextureCube",
     "Texture1DArray", "Texture2DArray", "TextureCubeArray"}

\* The dimensions a caller passes: -1, 0 and small positive sizes.
DimPatterns == {ToUInt(-1), 0, 1, 2}

\* TextureDescriptor: the type and the anonymous union of texture1DDesc
\* {width, layers}, texture2DDesc {width, height, layers}, texture3DDesc
\* {width, height, depth} and textureCubeDesc {width, height, layers},
\* kept as the three words m the members share.
NoTextureDesc == [type |-> "Undefined", m |-> [i \in 1..3 |-> 0], bindFlags |-> {}]

\* The layer counts a caller passes: 0, small counts and the largest value;
\* for a cube array, whose count is multiplied, every value.
LayerPatterns == {0, 1, 2, UIntRange - 1}

\* The descriptors a caller passes: the member of the descriptor's type is
\* filled, a dimension from DimPatterns and a layer count; a word the member
\* does not cover is zero; of the bind flags, whether the texture is to be a
\* depth-stencil target.
TextureDescriptors ==
    { d \in [type : TextureTypes, m : [1..3 -> UInts],
              bindFlags : {{}, {"DepthStencilAttachment"}}] :
        /\ d.m[1] \in DimPatterns
        /\ d.type \in {"Texture1D", "Texture1DArray"} =>
               d.m[2] \in LayerPatterns /\ d.m[3] = 0
        /\ d.type \notin {"Texture1D", "Texture1DArray"} => d.m[2] \in DimPatterns
        /\ d.type = "Texture3D" => d.m[3] \in DimPatterns
        /\ d.type \in {"Texture2D", "Texture2DArray", "TextureCube"} =>
               d.m[3] \in LayerPatterns }
      \cup {NoTextureDesc}

\* The members of the union, by the word they occupy.
Width(d) == d.m[1]
Layers1D(d) == d.m[2]
Height(d) == d.m[2]
Layers2D(d) == d.m[3]
Depth(d) == d.m[3]

\* CreateTexture, lines 29-48: "modify number of layers".
ModifyLayers(d) ==
    CASE d.type = "Texture1D" -> [d EXCEPT !.m[2] = 1]
      [] d.type = "Texture2D" -> [d EXCEPT !.m[3] = 1]
      [] d.type = "TextureCube" -> [d EXCEPT !.m[3] = 6]
      [] d.type = "TextureCubeArray" -> [d EXCEPT !.m[3] = ToUInt(@ * 6)]
      [] OTHER -> d

NoNative == [dim |-> 0, Width |-> 0, Height |-> 0, Depth |-> 0,
             ArraySize |-> 0, cube |-> FALSE, MiscFlags |-> {}]

\* BuildGenericTexture1D, lines 241-251: D3D11_TEXTURE1D_DESC
BuildGenericTexture1D(d, miscFlags) ==
    [dim |-> 1, Width |-> Width(d), Height |-> 1, Depth |-> 1,
     ArraySize |-> Layers1D(d), cube |-> FALSE, MiscFlags |-> miscFlags]

\* BuildGenericTexture2D, lines 275-288: D3D11_TEXTURE2D_DESC
BuildGenericTexture2D(d, miscFlags) ==
    [dim |-> 2, Width |-> Width(d), Height |-> Height(d), Depth |-> 1,
     ArraySize |-> Layers2D(d),
     cube |-> "D3D11_RESOURCE_MISC_TEXTURECUBE" \in miscFlags,
     MiscFlags |-> miscFlags]

\* BuildGenericTexture3D, lines 312-323: D3D11_TEXTURE3D_DESC
BuildGenericTexture3D(d, miscFlags) ==
    [dim |-> 3, Width |-> Width(d), Height |-> Height(d), Depth |-> Depth(d),
     ArraySize |-> 1, cube |-> FALSE, MiscFlags |-> miscFlags]

\* CreateTexture, lines 50-71: the native descriptor built for descD3D with
\* the misc flags written out at each call, NoNative for an invalid texture
\* type.
BuildGenericTexture(d) ==
    CASE d.type \in {"Texture1D", "Texture1DArray"} ->
             BuildGenericTexture1D(d, {"D3D11_RESOURCE_MISC_GENERATE_MIPS"})
      [] d.type \in {"Texture2D", "Texture2DArray"} ->
             BuildGenericTexture2D(d, {"D3D11_RESOURCE_MISC_GENERATE_MIPS"})
      [] d.type = "Texture3D" ->
             BuildGenericTexture3D(d, {"D3D11_RESOURCE_MISC_GENERATE_MIPS"})
      [] d.type \in {"TextureCube", "TextureCubeArray"} ->
             BuildGenericTexture2D(d, {"D3D11_RESOURCE_MISC_GENERATE_MIPS",
                                      "D3D11_RESOURCE_MISC_TEXTURECUBE"})
      [] OTHER -> NoNative

\* What ID3D11Device::CreateTexture1D/2D/3D accepts: sizes of at least 1 and
\* at most the resource limit (below the sign bit), and for a cube texture
\* square faces and a multiple of six layers.
NativeAccepts(n) ==
    /\ \A v \in {n.Width, n.Height, n.Depth} : v >= 1 /\ v < UIntRange \div 2
    /\ n.ArraySize >= 1
    /\ n.cube => (n.Width = n.Height /\ n.ArraySize % 6 = 0)

NoTexture == [type |-> "", native |-> NoNative]

NoBox == [left |-> 0, top |-> 0, front |-> 0, right |-> 0, bottom |-> 0, back |-> 0]

NoSubTexture ==
    [mipLevel |-> 0, x |-> 0, y |-> 0, z |-> 0, layerOffset |-> 0,
     cubeFaceOffset |-> 0, width |-> 0, height |-> 0, depth |-> 0,
     layers |-> 0, cubeFaces |-> 0]

TexOut(status, native, box) ==
    [status |-> status, native |-> native, box |-> box, desc |-> NoTextureDesc]

InitTexture ==
    /\ texOp = ""
    /\ textureDesc = NoTextureDesc
    /\ subTextureDesc = NoSubTexture
    /\ texture = NoTexture
    /\ texOut = TexOut("", NoNative, NoBox)

\* D3D11RenderSystem::CreateTexture, lines 22-74. The texture object is
\* registered (TakeOwnership) only after the native texture was created;
\* an invalid type throws std::invalid_argument before any native call, a
\* native creation that fails throws from D3D11Texture::CreateTexture*.
\* The model follows one texture of textures_ from creation to release.
CreateTexture(d) ==
    /\ texture = NoTexture
    /\ texOp' = "CreateTexture"
    /\ textureDesc' = d
    /\ LET descD3D == ModifyLayers(d)
           native == BuildGenericTexture(descD3D)
       IN IF native = NoNative
            THEN /\ texOut' = TexOut("invalid_argument", NoNative, NoBox)
                 /\ UNCHANGED texture
            ELSE \E created \in BOOLEAN :
                   /\ created => NativeAccepts(native)
                   /\ IF created
                        THEN /\ texture' = [type |-> d.type, native |-> native]
                             /\ texOut' = TexOut("ok", native, NoBox)
                        ELSE /\ texOut' = TexOut("native creation failed",
                                                 native, NoBox)
                             /\ UNCHANGED texture
    /\ subTextureDesc' = NoSubTexture

\* The values a caller puts into a sub-texture descriptor.
Offsets == {0, 1}
Extents == {1, 256}
LayerOffsets == 0..MaxLayerOffset
LayerCounts == {1, 2}
CubeFaceOffsets == {0, 1, 5}

\* The sub-texture descriptors a caller passes for a texture of a type: the
\* members of the sub-descriptor of that type, the rest zero; a caller may
\* fill layerOffset for a plain cube as well.
SubTextureDescriptors(type) ==
    { sd \in [mipLevel : {0}, x : Offsets, y : Offsets, z : Offsets,
              layerOffset : LayerOffsets, cubeFaceOffset : CubeFaceOffsets,
              width : Extents, height : Extents, depth : LayerCounts,
              layers : LayerCounts, cubeFaces : LayerCounts] :
        /\ type \in {"Texture1D", "Texture1DArray"} => sd.y = 0 /\ sd.height = 1
        /\ type # "Texture3D" => sd.z = 0 /\ sd.depth = 1
        /\ type \notin {"Texture1DArray", "Texture2DArray"} => sd.layers = 1
        /\ type \notin {"Texture1DArray", "Texture2DArray", "TextureCube",
                        "TextureCubeArray"} => sd.layerOffset = 0
        /\ type \notin {"TextureCube", "TextureCubeArray"} => sd.cubeFaceOffset = 0
        /\ type # "TextureCubeArray" => sd.cubeFaces = 1 }

Vector3(x, y, z) == [x |-> x, y |-> y, z |-> z]

\* Variant: every array kind puts the layer offset into z.
RegionPositionLayerInZ(type, sd) ==
    CASE type \in {"Texture1D", "Texture1DArray"} -> Vector3(sd.x, 0, sd.layerOffset)
      [] type = "Texture3D" -> Vector3(sd.x, sd.y, sd.z)
      [] type \in {"TextureCube", "TextureCubeArray"} ->
             Vector3(sd.x, sd.y, sd.layerOffset * 6 + sd.cubeFaceOffset)
      [] OTHER -> Vector3(sd.x, sd.y, sd.layerOffset)

\* Variant: a plain cube folds the layer offset into z like a cube array.
RegionPositionCubeFoldsLayer(type, sd) ==
    CASE type \in {"TextureCube", "TextureCubeArray"} ->
             Vector3(sd.x, sd.y, sd.layerOffset * 6 + sd.cubeFaceOffset)
      [] type = "Texture1DArray" -> Vector3(sd.x, sd.layerOffset, 0)
      [] type = "Texture1D" -> Vector3(sd.x, 0, 0)
      [] type = "Texture3D" -> Vector3(sd.x, sd.y, sd.z)
      [] OTHER -> Vector3(sd.x, sd.y, sd.layerOffset)

\* WriteTexture, lines 145-209: position of the update region per type.
RegionPosition(type, sd) ==
    CASE type = "Texture1D" -> Vector3(sd.x, 0, 0)
      [] type = "Texture2D" -> Vector3(sd.x, sd.y, 0)
      [] type = "Texture3D" -> Vector3(sd.x, sd.y, sd.z)
      [] type = "TextureCube" -> Vector3(sd.x, sd.y, sd.cubeFaceOffset)
      [] type = "Texture1DArray" -> Vector3(sd.x, sd.layerOffset, 0)
      [] type = "Texture2DArray" -> Vector3(sd.x, sd.y, sd.layerOffset)
      [] type = "TextureCubeArray" ->
             Vector3(sd.x, sd.y, sd.layerOffset * 6 + sd.cubeFaceOffset)

\* Variant: an update always covers a single layer.
RegionSizeSingleLayer(type, sd) ==
    Vector3(sd.width, IF type \in {"Texture1D", "Texture1DArray"} THEN 1 ELSE sd.height,
            IF type = "Texture3D" THEN sd.depth ELSE 1)

\* WriteTexture, lines 145-209: size of the update region per type.
RegionSize(type, sd) ==
    CASE type = "Texture1D" -> Vector3(sd.width, 1, 1)
      [] type = "Texture2D" -> Vector3(sd.width, sd.height, 1)
      [] type = "Texture3D" -> Vector3(sd.width, sd.height, sd.depth)
      [] type = "TextureCube" -> Vector3(sd.width, sd.height, 1)
      [] type = "Texture1DArray" -> Vector3(sd.width, sd.layers, 1)
      [] type = "Texture2DArray" -> Vector3(sd.width, sd.height, sd.layers)
      [] type = "TextureCubeArray" -> Vector3(sd.width, sd.height, sd.cubeFaces)

\* UpdateGenericTexture, lines 349-352: CD3D11_BOX(position, position + size)
UpdateBox(position, size) ==
    [left |-> position.x, top |-> position.y, front |-> position.z,
     right |-> position.x + size.x, bottom |-> position.y + size.y,
     back |-> position.z + size.z]

\* D3D11RenderSystem::WriteTexture, lines 143-213, with
\* UpdateGenericTexture, lines 342-355. textureDesc and subTextureDesc hold
\* the arguments of the last call only.
WriteTexture(sd) ==
    /\ texture # NoTexture
    /\ texOp' = "WriteTexture"
    /\ subTextureDesc' = sd
    /\ texOut' = TexOut("ok", NoNative,
                        UpdateBox(RegionPosition(texture.type, sd),
                                  RegionSize(texture.type, sd)))
    /\ textureDesc' = NoTextureDesc
    /\ UNCHANGED texture

\* D3D11RenderSystem::Release(Texture&), lines 76-79.
ReleaseTexture ==
    /\ texture # NoTexture
    /\ texOp' = "Release"
    /\ texture' = NoTexture
    /\ textureDesc' = NoTextureDesc
    /\ subTextureDesc' = NoSubTexture
    /\ texOut' = TexOut("ok", NoNative, NoBox)

\* A query that reports the native array size of a cube texture as it is.
QueryTextureDescriptorInFaces(tex) ==
    [type |-> tex.type,
     m |-> CASE tex.native.dim = 1 ->
                    <<tex.native.Width, tex.native.ArraySize, 0>>
             [] tex.native.dim = 2 ->
                    <<tex.native.Width, tex.native.Height, tex.native.ArraySize>>
             [] tex.native.dim = 3 ->
                    <<tex.native.Width, tex.native.Height, tex.native.Depth>>
             [] OTHER -> <<0, 0, 0>>,
     bindFlags |-> {}]

\* QueryTextureDescriptor, lines 81-141: the descriptor read back from the
\* native texture, by its resource dimension; for the cube kinds the array
\* size is divided by six. A word the switch does not write is zero; the
\* bind flags are not reported.
QueryTextureDescriptor(tex) ==
    [type |-> tex.type,
     m |-> CASE tex.native.dim = 1 ->
                    <<tex.native.Width, tex.native.ArraySize, 0>>
             [] tex.native.dim = 2 ->
                    <<tex.native.Width, tex.native.Height,
                      IF tex.type \in {"TextureCube", "TextureCubeArray"}
                        THEN tex.native.ArraySize \div 6
                        ELSE tex.native.ArraySize>>
             [] tex.native.dim = 3 ->
                    <<tex.native.Width, tex.native.Height, tex.native.Depth>>
             [] OTHER -> <<0, 0, 0>>,
     bindFlags |-> {}]

\* A call of QueryTextureDescriptor for the texture; the descriptor it was
\* created from is kept for comparison until the texture is written or
\* released.
Call_QueryTextureDescriptor ==
    /\ texture # NoTexture
    /\ texOp' = "QueryTextureDescriptor"
    /\ texOut' = [TexOut("ok", NoNative, NoBox)
                    EXCEPT !.desc = QueryTextureDescriptor(texture)]
    /\ subTextureDesc' = NoSubTexture
    /\ UNCHANGED <<texture, textureDesc>>

----------------------------------------------------------------------------
(* D3D11ResourceFlags: translation of descriptor flags *)

\* The bits of BindFlags, CPUAccessFlags and MiscFlags; a flags value is the
\* set of its bits, (flags & bit) != 0 is membership.
BindFlagBits ==
    {"VertexBuffer", "IndexBuffer", "ConstantBuffer", "StreamOutputBuffer",
     "SampleBuffer", "RWStorageBuffer", "ColorAttachment",
     "DepthStencilAttachment", "IndirectBuffer"}
CPUAccessFlagBits == {"Read", "Write"}
MiscFlagBits == {"DynamicUsage"}

\* The descriptors given to the functions. isMipMapped and isCube are what
\* IsMipMappedTexture(desc) and IsCubeTexture(desc.type) answer, isStructured
\* and isByteAddress what IsStructuredBuffer and IsByteAddressBuffer answer
\* for desc.storageBuffer.storageType.
NoFlagDesc ==
    [kind |-> "", bindFlags |-> {}, cpuAccessFlags |-> {}, miscFlags |-> {},
     isMipMapped |-> FALSE, isCube |-> FALSE,
     isStructured |-> FALSE, isByteAddress |-> FALSE]

FlagTextureDescriptors ==
    [kind : {"texture"}, bindFlags : SUBSET BindFlagBits,
     cpuAccessFlags : SUBSET CPUAccessFlagBits, miscFlags : {{}},
     isMipMapped : BOOLEAN, isCube : BOOLEAN,
     isStructured : {FALSE}, isByteAddress : {FALSE}]

FlagBufferDescriptors ==
    [kind : {"buffer"}, bindFlags : SUBSET BindFlagBits,
     cpuAccessFlags : SUBSET CPUAccessFlagBits, miscFlags : SUBSET MiscFlagBits,
     isMipMapped : {FALSE}, isCube : {FALSE},
     isStructured : BOOLEAN, isByteAddress : BOOLEAN]

\* flagsD3D |= bit, when the condition holds
BitIf(cond, bit) == IF cond THEN {bit} ELSE {}

\* Variant: a color attachment bit sets the render-target bit of a buffer.
DXGetBufferBindFlagsWithAttachment(bindFlags) ==
    BitIf("VertexBuffer" \in bindFlags, "D3D11_BIND_VERTEX_BUFFER")
    \cup BitIf("IndexBuffer" \in bindFlags, "D3D11_BIND_INDEX_BUFFER")
    \cup BitIf("ConstantBuffer" \in bindFlags, "D3D11_BIND_CONSTANT_BUFFER")
    \cup BitIf("StreamOutputBuffer" \in bindFlags, "D3D11_BIND_STREAM_OUTPUT")
    \cup BitIf("SampleBuffer" \in bindFlags, "D3D11_BIND_SHADER_RESOURCE")
    \cup BitIf("RWStorageBuffer" \in bindFlags, "D3D11_BIND_UNORDERED_ACCESS")
    \cup BitIf("ColorAttachment" \in bindFlags, "D3D11_BIND_RENDER_TARGET")

\* DXGetBufferBindFlags, lines 20-38
DXGetBufferBindFlags(bindFlags) ==
    BitIf("VertexBuffer" \in bindFlags, "D3D11_BIND_VERTEX_BUFFER")
    \cup BitIf("IndexBuffer" \in bindFlags, "D3D11_BIND_INDEX_BUFFER")
    \cup BitIf("ConstantBuffer" \in bindFlags, "D3D11_BIND_CONSTANT_BUFFER")
    \cup BitIf("StreamOutputBuffer" \in bindFlags, "D3D11_BIND_STREAM_OUTPUT")
    \cup BitIf("SampleBuffer" \in bindFlags, "D3D11_BIND_SHADER_RESOURCE")
    \cup BitIf("RWStorageBuffer" \in bindFlags, "D3D11_BIND_UNORDERED_ACCESS")

\* Variant: the depth-stencil and the render-target bit are set independently.
DXGetTextureBindFlagsIndependent(desc) ==
    BitIf("DepthStencilAttachment" \in desc.bindFlags, "D3D11_BIND_DEPTH_STENCIL")
    \cup BitIf(desc.isMipMapped \/ "ColorAttachment" \in desc.bindFlags,
               "D3D11_BIND_RENDER_TARGET")
    \cup BitIf(desc.isMipMapped \/ "SampleBuffer" \in desc.bindFlags,
               "D3D11_BIND_SHADER_RESOURCE")
    \cup BitIf("RWStorageBuffer" \in desc.bindFlags, "D3D11_BIND_UNORDERED_ACCESS")

\* DXGetTextureBindFlags, lines 40-58
DXGetTextureBindFlags(desc) ==
    LET hasMipMaps == desc.isMipMapped
    IN (IF "DepthStencilAttachment" \in desc.bindFlags
          THEN {"D3D11_BIND_DEPTH_STENCIL"}
          ELSE BitIf(hasMipMaps \/ "ColorAttachment" \in desc.bindFlags,
                     "D3D11_BIND_RENDER_TARGET"))
       \cup BitIf(hasMipMaps \/ "SampleBuffer" \in desc.bindFlags,
                  "D3D11_BIND_SHADER_RESOURCE")
       \cup BitIf("RWStorageBuffer" \in desc.bindFlags,
                  "D3D11_BIND_UNORDERED_ACCESS")

\* DXGetCPUAccessFlagsForMiscFlags, lines 65-73
DXGetCPUAccessFlagsForMiscFlags(miscFlags) ==
    BitIf("DynamicUsage" \in miscFlags, "D3D11_CPU_ACCESS_WRITE")

\* DXGetCPUAccessFlags, lines 75-85
DXGetCPUAccessFlags(cpuAccessFlags) ==
    BitIf("Read" \in cpuAccessFlags, "D3D11_CPU_ACCESS_READ")
    \cup BitIf("Write" \in cpuAccessFlags, "D3D11_CPU_ACCESS_WRITE")

\* DXGetBufferMiscFlags, lines 92-108
DXGetBufferMiscFlags(desc) ==
    BitIf("IndirectBuffer" \in desc.bindFlags, "D3D11_RESOURCE_MISC_DRAWINDIRECT_ARGS")
    \cup (IF desc.bindFlags \cap {"SampleBuffer", "RWStorageBuffer"} # {}
            THEN IF desc.isStructured
                   THEN {"D3D11_RESOURCE_MISC_BUFFER_STRUCTURED"}
                   ELSE BitIf(desc.isByteAddress,
                              "D3D11_RESOURCE_MISC_BUFFER_ALLOW_RAW_VIEWS")
            ELSE {})

\* DXGetTextureMiscFlags, lines 110-121
DXGetTextureMiscFlags(desc) ==
    BitIf(desc.isMipMapped /\ "DepthStencilAttachment" \notin desc.bindFlags,
          "D3D11_RESOURCE_MISC_GENERATE_MIPS")
    \cup BitIf(desc.isCube, "D3D11_RESOURCE_MISC_TEXTURECUBE")

\* DXGetBufferUsage, lines 128-136
DXGetBufferUsage(desc) ==
    IF "RWStorageBuffer" \notin desc.bindFlags /\ "DynamicUsage" \in desc.miscFlags
      THEN "D3D11_USAGE_DYNAMIC"
      ELSE "D3D11_USAGE_DEFAULT"

\* DXGetCPUAccessBufferUsage, lines 138-145
DXGetCPUAccessBufferUsage(desc) ==
    IF "Read" \in desc.cpuAccessFlags THEN "D3D11_USAGE_STAGING"
    ELSE IF "Write" \in desc.cpuAccessFlags THEN "D3D11_USAGE_DYNAMIC"
    ELSE "D3D11_USAGE_DEFAULT"

\* Variant: the write test comes first.
DXGetTextureUsageWriteFirst(desc) ==
    IF "Write" \in desc.cpuAccessFlags THEN "D3D11_USAGE_DYNAMIC"
    ELSE IF "Read" \in desc.cpuAccessFlags THEN "D3D11_USAGE_STAGING"
    ELSE "D3D11_USAGE_DEFAULT"

\* DXGetTextureUsage, lines 147-154
DXGetTextureUsage(desc) ==
    IF "Read" \in desc.cpuAccessFlags THEN "D3D11_USAGE_STAGING"
    ELSE IF "Write" \in desc.cpuAccessFlags THEN "D3D11_USAGE_DYNAMIC"
    ELSE "D3D11_USAGE_DEFAULT"

\* The value a function returned: a set of D3D11 flag bits or a D3D11_USAGE.
FlagsResult(flags) == [flags |-> flags, usage |-> ""]
UsageResult(usage) == [flags |-> {}, usage |-> usage]

\* Before a function is applied: any descriptor, no result.
InitFlags ==
    /\ flagOp = ""
    /\ flagDesc \in FlagTextureDescriptors \cup FlagBufferDescriptors
    /\ flagOut = FlagsResult({})

\* A function of the given name is applied to the descriptor of its kind.
Apply(kind, name, result) ==
    /\ flagOp = ""
    /\ flagDesc.kind = kind
    /\ flagOp' = name
    /\ flagOut' = result
    /\ UNCHANGED flagDesc

Apply_DXGetBufferBindFlags ==
    Apply("buffer", "DXGetBufferBindFlags",
          FlagsResult(DXGetBufferBindFlags(flagDesc.bindFlags)))

Apply_DXGetTextureBindFlags ==
    Apply("texture", "DXGetTextureBindFlags",
          FlagsResult(DXGetTextureBindFlags(flagDesc)))

Apply_DXGetCPUAccessFlagsForMiscFlags ==
    Apply("buffer", "DXGetCPUAccessFlagsForMiscFlags",
          FlagsResult(DXGetCPUAccessFlagsForMiscFlags(flagDesc.miscFlags)))

Apply_DXGetCPUAccessFlags ==
    \E kind \in {"buffer", "texture"} :
        Apply(kind, "DXGetCPUAccessFlags",
              FlagsResult(DXGetCPUAccessFlags(flagDesc.cpuAccessFlags)))

Apply_DXGetBufferMiscFlags ==
    Apply("buffer", "DXGetBufferMiscFlags",
          FlagsResult(DXGetBufferMiscFlags(flagDesc)))

Apply_DXGetTextureMiscFlags ==
    Apply("texture", "DXGetTextureMiscFlags",
          FlagsResult(DXGetTextureMiscFlags(flagDesc)))

Apply_DXGetBufferUsage ==
    Apply("buffer", "DXGetBufferUsage", UsageResult(DXGetBufferUsage(flagDesc)))

Apply_DXGetCPUAccessBufferUsage ==
    Apply("buffer", "DXGetCPUAccessBufferUsage",
          UsageResult(DXGetCPUAccessBufferUsage(flagDesc)))

Apply_DXGetTextureUsage ==
    Apply("texture", "DXGetTextureUsage", UsageResult(DXGetTextureUsage(flagDesc)))

----------------------------------------------------------------------------
(* Specifications *)

\* The fence variables while another subsystem is checked.
ParkedFence ==
    /\ fenceVal = 0
    /\ cmdQueue = <<>>
    /\ fenceEvent = FALSE
    /\ waits = {}
    /\ fenceValue = [c \in Callers |-> 0]
    /\ syncPc = "idle"
    /\ syncCaller = 0
    /\ workSubmitted = 0
    /\ workCompleted = 0
    /\ workAtCall = 0
    /\ syncResult = "none"
    /\ valueAtCall = 0
    /\ callFailed = FALSE

ParkedRegistry == InitRegistry

\* The device variables after a successful construction.
ParkedDevice ==
    /\ devPc = "constructed"
    /\ devPass = 1
    /\ levelIdx = 1
    /\ adapter = DefaultAdapter
    /\ hr = S_OK
    /\ device_ = [adapter |-> DefaultAdapter, level |-> D3D_FEATURE_LEVEL_12_1]
    /\ featureLevel_ = D3D_FEATURE_LEVEL_12_1
    /\ attempts = <<[adapter |-> DefaultAdapter, level |-> D3D_FEATURE_LEVEL_12_1,
                     ok |-> TRUE]>>
    /\ stepsDone = <<>>
    /\ ctorError = ""
    /\ capsSeen = {}
    /\ langSeen = {}
    /\ otherOps = FALSE

\* The context variables before any GL context is created.
ParkedContext ==
    /\ InitContext
    /\ desc_ = [enabled |-> FALSE, samples |-> 0, extProfile |-> FALSE]
    /\ env = [msaa |-> {}, pixelFormatProcs |-> FALSE]

\* The texture variables before any texture operation.
ParkedTexture == InitTexture

\* The flag variables when no translation function is under study.
ParkedFlags == flagOp = "" /\ flagDesc = NoFlagDesc /\ flagOut = FlagsResult({})

nonFenceVars == <<regVars, devVars, ctxVars, texVars, flagVars>>
nonRegVars == <<fenceVars, devVars, ctxVars, texVars, flagVars>>
nonDevVars == <<fenceVars, regVars, ctxVars, texVars, flagVars>>
nonCtxVars == <<fenceVars, regVars, devVars, texVars, flagVars>>
nonTexVars == <<fenceVars, regVars, devVars, ctxVars, flagVars>>
nonFlagVars == <<fenceVars, regVars, devVars, ctxVars, texVars>>

NextFence ==
    \/ SubmitWork /\ UNCHANGED nonFenceVars
    \/ GPUStep /\ UNCHANGED nonFenceVars
    \/ \E c \in Callers : SyncGPU_Signal(c) /\ UNCHANGED nonFenceVars
    \/ \E c \in Callers : SyncGPU_SignalFailed(c) /\ UNCHANGED nonFenceVars
    \/ SyncGPU_SetEvent /\ UNCHANGED nonFenceVars
    \/ SyncGPU_SetEventFailed /\ UNCHANGED nonFenceVars
    \/ SyncGPU_Wait /\ UNCHANGED nonFenceVars

InitSpecFence ==
    /\ InitFence /\ ParkedRegistry /\ ParkedDevice /\ ParkedContext /\ ParkedTexture
    /\ ParkedFlags

SpecFence == InitSpecFence /\ [][NextFence]_vars

NextRegistry ==
    \/ \E sys \in Systems : \E kind \in KindsOf(sys) :
           Create(sys, kind) /\ UNCHANGED nonRegVars
    \/ \E sys \in Systems : \E h \in Handles :
           Release(sys, h) /\ UNCHANGED nonRegVars
    \/ \E sys \in Systems : \E h \in Handles :
           Resolve(sys, h) /\ UNCHANGED nonRegVars

InitSpecRegistry ==
    /\ InitRegistry /\ ParkedFence /\ ParkedDevice /\ ParkedContext /\ ParkedTexture
    /\ ParkedFlags

SpecRegistry == InitSpecRegistry /\ [][NextRegistry]_vars

NextDevice ==
    \/ CreateFactory /\ UNCHANGED nonDevVars
    \/ QueryVideoAdapters /\ UNCHANGED nonDevVars
    \/ TryCreateDevice /\ UNCHANGED nonDevVars
    \/ EnumWarpAdapter /\ UNCHANGED nonDevVars
    \/ CreateFence /\ UNCHANGED nonDevVars
    \/ CreateRootSignature /\ UNCHANGED nonDevVars
    \/ CreateDXCommandQueue /\ UNCHANGED nonDevVars
    \/ Call_QueryRenderingCaps /\ UNCHANGED nonDevVars
    \/ Call_QueryShadingLanguage /\ UNCHANGED nonDevVars
    \/ OtherOperation /\ UNCHANGED nonDevVars

InitSpecDevice ==
    /\ InitDevice /\ ParkedFence /\ ParkedRegistry /\ ParkedContext /\ ParkedTexture
    /\ ParkedFlags

SpecDevice == InitSpecDevice /\ [][NextDevice]_vars

NextContext ==
    \/ CreateContext_Begin /\ UNCHANGED nonCtxVars
    \/ SelectPixelFormat_Step /\ UNCHANGED nonCtxVars
    \/ CreateContext_Std /\ UNCHANGED nonCtxVars
    \/ SetupAntiAliasing_Load /\ UNCHANGED nonCtxVars
    \/ SetupAntiAliasing_Probe /\ UNCHANGED nonCtxVars
    \/ SetupAntiAliasing_Return /\ UNCHANGED nonCtxVars
    \/ CreateContext_RecreateStd /\ UNCHANGED nonCtxVars
    \/ CreateContext_ExtProfile /\ UNCHANGED nonCtxVars
    \/ CreateContext_Activate /\ UNCHANGED nonCtxVars
    \/ CreateNextContext /\ UNCHANGED nonCtxVars
    \/ DeleteContext /\ UNCHANGED nonCtxVars

InitSpecContext ==
    /\ InitContext /\ ParkedFence /\ ParkedRegistry /\ ParkedDevice /\ ParkedTexture
    /\ ParkedFlags

SpecContext == InitSpecContext /\ [][NextContext]_vars

NextTexture ==
    \/ \E d \in TextureDescriptors : CreateTexture(d) /\ UNCHANGED nonTexVars
    \/ \E sd \in SubTextureDescriptors(texture.type) :
           WriteTexture(sd) /\ UNCHANGED nonTexVars
    \/ ReleaseTexture /\ UNCHANGED nonTexVars
    \/ Call_QueryTextureDescriptor /\ UNCHANGED nonTexVars

InitSpecTexture ==
    /\ InitTexture /\ ParkedFence /\ ParkedRegistry /\ ParkedDevice /\ ParkedContext
    /\ ParkedFlags

SpecTexture == InitSpecTexture /\ [][NextTexture]_vars

NextFlags ==
    \/ Apply_DXGetBufferBindFlags /\ UNCHANGED nonFlagVars
    \/ Apply_DXGetTextureBindFlags /\ UNCHANGED nonFlagVars
    \/ Apply_DXGetCPUAccessFlagsForMiscFlags /\ UNCHANGED nonFlagVars
    \/ Apply_DXGetCPUAccessFlags /\ UNCHANGED nonFlagVars
    \/ Apply_DXGetBufferMiscFlags /\ UNCHANGED nonFlagVars
    \/ Apply_DXGetTextureMiscFlags /\ UNCHANGED nonFlagVars
    \/ Apply_DXGetBufferUsage /\ UNCHANGED nonFlagVars
    \/ Apply_DXGetCPUAccessBufferUsage /\ UNCHANGED nonFlagVars
    \/ Apply_DXGetTextureUsage /\ UNCHANGED nonFlagVars

InitSpecFlags ==
    /\ InitFlags /\ ParkedFence /\ ParkedRegistry /\ ParkedDevice /\ ParkedContext
    /\ ParkedTexture

SpecFlags == InitSpecFlags /\ [][NextFlags]_vars

----------------------------------------------------------------------------
(* Claims about SyncGPU and the fence *)

\* C1: whenever SyncGPU returns normally, every GPU command submitted to the
\* command queue before the call has completed on the GPU timeline, whatever
\* value the caller's counter holds.
SyncGPUWaitsForPriorWork == syncResult # "early"

\* C2: the value of the render system's fence never decreases over any
\* sequence of SyncGPU calls, also with several callers that each pass
\* their own counter.
FenceNeverDecreases == [][fenceVal' >= fenceVal]_vars

----------------------------------------------------------------------------
(* Claims about the hardware object containers *)

ReleaseOfUnknownIsInvalidArgument ==
    (lastOp.op = "release" /\ ~lastOp.known) => lastOp.result = "InvalidArgument"

----------------------------------------------------------------------------
(* Claims about device negotiation *)

\* The order of the feature levels as the claim states it.
DescendingLevels ==
    << D3D_FEATURE_LEVEL_12_1, D3D_FEATURE_LEVEL_12_0, D3D_FEATURE_LEVEL_11_1,
       D3D_FEATURE_LEVEL_11_0, D3D_FEATURE_LEVEL_10_1, D3D_FEATURE_LEVEL_10_0,
       D3D_FEATURE_LEVEL_9_3, D3D_FEATURE_LEVEL_9_2, D3D_FEATURE_LEVEL_9_1 >>

NumLevels == Len(DescendingLevels)

DevicePastCreateDevice ==
    devPc \in {"CreateGPUSynchObjects", "CreateRootSignature",
               "CreateDXCommandQueue", "constructed"}

\* C5: CreateDevice tries the feature levels in descending order (12_1 ...
\* 9_1) on the hardware adapter and selects the first level whose device
\* creation succeeds; the software adapter is tried, with the same ordered
\* list, only after every level failed on hardware; featureLevel_ equals
\* the level of the successful attempt.
FeatureLevelsTriedInOrder ==
    /\ Len(attempts) <= 2 * NumLevels
    /\ \A i \in 1..Len(attempts) :
          /\ attempts[i].level = DescendingLevels[((i - 1) % NumLevels) + 1]
          /\ i <= NumLevels => attempts[i].adapter = DefaultAdapter
          /\ attempts[i].adapter = WarpAdapter =>
                /\ i > NumLevels
                /\ \A j \in 1..NumLevels : ~attempts[j].ok
          /\ attempts[i].ok => i = Len(attempts)
    /\ DevicePastCreateDevice =>
          /\ attempts # <<>>
          /\ attempts[Len(attempts)].ok
          /\ featureLevel_ = attempts[Len(attempts)].level
          /\ device_ = [adapter |-> attempts[Len(attempts)].adapter,
                        level |-> attempts[Len(attempts)].level]
    /\ (attempts # <<>> /\ attempts[Len(attempts)].ok) =>
          /\ devPc \notin {"CreateDevice", "EnumWarpAdapter"}
          /\ ctorError # "DeviceCreationFailed"
          /\ featureLevel_ = attempts[Len(attempts)].level

\* C5 witness: every level failed on hardware, the software adapter succeeded
\* at a level below the highest one and the constructor completed.
SoftwareFallbackSucceeded ==
    /\ devPc = "constructed"
    /\ Len(attempts) > NumLevels + 1
    /\ attempts[Len(attempts)].adapter = WarpAdapter
    /\ attempts[Len(attempts)].ok
    /\ featureLevel_ = attempts[Len(attempts)].level

AllAttemptsFailed ==
    /\ Len(attempts) = 2 * NumLevels
    /\ \A i \in 1..Len(attempts) : ~attempts[i].ok

\* C6: if device creation fails at every feature level on both adapters,
\* construction fails with DeviceCreationFailed, no device object exists and
\* none of the later bring-up steps (fence creation, root signature, command
\* queue) is executed.
NoDeviceWhenAllLevelsFail ==
    AllAttemptsFailed =>
        /\ devPc = "threw"
        /\ ctorError = "DeviceCreationFailed"
        /\ device_ = NoDevice
        /\ \A k \in 1..Len(stepsDone) :
              stepsDone[k] \notin {"CreateGPUSynchObjects", "CreateRootSignature",
                                   "CreateDXCommandQueue"}

\* C6 witness: all eighteen attempts failed and the constructor has thrown.
AllLevelsFailedAndThrew ==
    /\ AllAttemptsFailed
    /\ devPc = "threw"
    /\ \E i \in 1..Len(attempts) : attempts[i].adapter = WarpAdapter

----------------------------------------------------------------------------
(* Claims about anti-aliasing negotiation in Win32GLContext *)

\* The sample counts not above the requested one that the driver supports.
SupportedUpToRequested == { s \in SupportedSamples : s <= hist.queriedSamples }

\* S: the largest supported sample count not above the requested one.
LargestSupported ==
    CHOOSE s \in SupportedUpToRequested : \A t \in SupportedUpToRequested : t <= s

\* Anti-aliasing was requested with a count for which some S >= 1 exists.
StepDownCase == hist.queriedEnabled /\ SupportedUpToRequested # {}

\* C7 as stated: whenever anti-aliasing was requested with R samples and S is
\* the largest supported count not above R, a finished negotiation has
\* samples == S with anti-aliasing enabled, and the "reduced" diagnostic was
\* emitted if S < R.
NegotiationEndsWithLargestSupported ==
    (StepDownCase /\ cpc = "Done") =>
        /\ desc_.samples = LargestSupported
        /\ desc_.enabled
        /\ (LargestSupported < hist.queriedSamples => MsgReduced \in hist.diag)

\* C7, amended: for a context that creates its own hardware context (no prior
\* context given), once SetupAntiAliasing has run it has returned true with
\* samples == S, anti-aliasing enabled and switched on, and the "reduced"
\* diagnostic emitted exactly if S < R; this still holds when CreateContext
\* is done, and CreateContext throws only after a native call has failed.
\* A context that is given a prior context does not probe and keeps R.
OwnContextEndsWithLargestSupported ==
    /\ (StepDownCase /\ sharedContext = NoContext) =>
          /\ hist.aaResult # "false"
          /\ (hist.aaResult = "true" \/ cpc = "Done") =>
                /\ hist.aaResult = "true"
                /\ desc_.samples = LargestSupported
                /\ desc_.enabled
                /\ hist.glMultisample
                /\ (MsgReduced \in hist.diag <=>
                        LargestSupported < hist.queriedSamples)
          /\ cpc = "Threw" => hist.nativeFailed
    /\ (hist.queriedEnabled /\ sharedContext # NoContext /\ cpc = "Done") =>
          /\ hist.probes = 0
          /\ desc_.samples = hist.queriedSamples
          /\ desc_.enabled

\* C7 witness: a context of its own finished after the step-down went from
\* the requested count to a lower supported one.
SteppedDownAndDone ==
    /\ StepDownCase
    /\ sharedContext = NoContext
    /\ cpc = "Done"
    /\ LargestSupported < hist.queriedSamples
    /\ desc_.samples = LargestSupported
    /\ hist.probes > 1

\* C8: when anti-aliasing was requested for a context of its own with R >= 1
\* samples and no count from R down to 1 is supported, a finished
\* CreateContext has multiSampling.enabled == false and samples == 0 and has
\* emitted the "not supported" diagnostic.
UnsupportedAntiAliasingIsDisabled ==
    ( /\ hist.queriedEnabled
      /\ hist.queriedSamples >= 1
      /\ SupportedUpToRequested = {}
      /\ sharedContext = NoContext
      /\ cpc = "Done" ) =>
        /\ ~desc_.enabled
        /\ desc_.samples = 0
        /\ ErrAntiAliasingNotSupported \in hist.diag

----------------------------------------------------------------------------
(* Claims about pixel-format selection and resource sharing *)

\* The candidate order of the specification: the format copied from the
\* shared context, the anti-aliased list if anti-aliasing is requested, the
\* standard format.
Candidates ==
    (IF hist.copied # 0 THEN <<hist.copied>> ELSE <<>>)
    \o (IF desc_.enabled THEN context_.pixelFormatsMS ELSE <<>>)
    \o <<StdFormat>>

\* SelectPixelFormat has just returned.
SelectionSucceeded == cpc \in {"CreateStd", "RecreateStd"}

\* C9: when SelectPixelFormat succeeds, the format in effect is the first
\* candidate, in the order copied format, anti-aliased list, standard
\* format, that the window accepted: every candidate before it was tried and
\* rejected.
FirstAcceptedCandidateWins ==
    SelectionSucceeded =>
        \E i \in DOMAIN Candidates :
            /\ Candidates[i] = context_.pixelFormat
            /\ context_.pixelFormat \in surf.ok
            /\ \A j \in 1..(i - 1) : Candidates[j] \in surf.bad

\* The same for selections that start from a copied format and stay inside
\* the anti-aliased list.
CopiedFormatIsTriedFirst ==
    (SelectionSucceeded /\ hist.copied # 0 /\ ~hist.pastEnd) =>
        \E i \in DOMAIN Candidates :
            /\ Candidates[i] = context_.pixelFormat
            /\ context_.pixelFormat \in surf.ok
            /\ \A j \in 1..(i - 1) : Candidates[j] \in surf.bad

\* C10: for a context that was given a prior context: if it reused the
\* prior's hardware context, wglShareLists was not called; if it has its own
\* hardware context and the extended profile is not in use, a finished
\* CreateContext has shared the lists; a failed wglShareLists made
\* CreateContext throw.
SharingFollowsHardwareContext ==
    sharedContext # NoContext =>
        /\ (cpc \in {"Done", "Threw"} /\ hasSharedContext_) => hist.share = "none"
        /\ (cpc = "Done" /\ ~hasSharedContext_ /\ ~desc_.extProfile) =>
               hist.share = "ok"
        /\ hist.share = "failed" =>
               /\ cpc = "Threw"
               /\ ctxError = "failed to share resources from OpenGL render context"

\* C10 witness: a context given a prior context is done, runs on the prior's
\* hardware context, and wglShareLists was not called.
ReusedContextWithoutShareLists ==
    /\ sharedContext # NoContext
    /\ cpc = "Done"
    /\ hasSharedContext_
    /\ context_.hGLRC = sharedContext.hGLRC
    /\ hist.share = "none"

\* Every context that is given a constructed prior context runs on the
\* prior's hardware context.
PriorContextIsAlwaysReused ==
    (sharedContext # NoContext /\ cpc \in {"ExtProfile", "Activate", "Done"}) =>
        hasSharedContext_

----------------------------------------------------------------------------
(* Claims about the extended profile and the order of CreateContext *)

\* The profile step of CreateContext (lines 140-172) is behind.
PastExtProfile == cpc \in {"Activate", "Done"}

\* C11: for a context with its own hardware context that requested the
\* extended profile, the profile step has run, and: if the extended context
\* was created it is the context in context_.hGLRC, it is current, the
\* profile flag stays set and the standard context was deleted (or the
\* native deletion failed and was logged); if the procedure was unavailable
\* or the creation failed, the matching diagnostic was logged, the profile
\* flag is cleared and context_.hGLRC is the standard context; a throw after
\* the step is one of the two final checks, never the step itself. This is
\* said of the context until its destructor runs.
ExtProfileReplacesOrKeepsBaseline ==
    cpc # "Destroyed" =>
        /\ (PastExtProfile /\ hist.queriedExtProfile /\ ~hasSharedContext_) =>
               hist.extResult # "none"
        /\ hist.extResult = "created" =>
               /\ desc_.extProfile
               /\ context_.hGLRC = NewHandle(ctxCount, "ext")
               /\ context_.hGLRC \in gl.alive
               /\ PastExtProfile => gl.current = context_.hGLRC
               /\ hist.baseline \notin gl.alive \/ MsgNotDeleted \in hist.diag
        /\ hist.extResult \in {"failed", "unavailable"} =>
               /\ ~desc_.extProfile
               /\ context_.hGLRC = hist.baseline
               /\ hist.extResult = "failed" => MsgNoExtProfile \in hist.diag
               /\ hist.extResult = "unavailable" => MsgNoProfileSelect \in hist.diag
               /\ cpc = "Threw" =>
                     \/ ctxError = "failed to activate OpenGL render context"
                     \/ /\ ctxError = "failed to create OpenGL render context"
                        /\ hist.baseline = 0
        /\ hist.extResult # "none" => hist.queriedExtProfile /\ ~hasSharedContext_

\* C11 witness: a finished context runs on the extended context and its
\* standard context is gone.
ExtendedContextReplacedBaseline ==
    /\ cpc = "Done"
    /\ hist.extResult = "created"
    /\ hist.baseline # 0
    /\ hist.baseline \notin gl.alive
    /\ context_.hGLRC = NewHandle(ctxCount, "ext")

\* The anti-aliasing capability is being or has been probed.
AntiAliasingProbed ==
    \/ cpc \in {"SetupAntiAliasing", "ProbeSamples", "AntiAliasingDone"}
    \/ hist.aaResult # "none"
    \/ hist.probes > 0

\* The extended-profile creation is being or has been attempted.
ExtProfileAttempted == cpc = "ExtProfile" \/ hist.extResult # "none"

\* C12: every anti-aliasing probe and every extended-profile creation comes
\* after the standard context was created and made current, and the
\* standard context is alive and current while the sample counts are probed;
\* if the standard context could not be created CreateContext has thrown and
\* neither probe was performed.
BaselineComesFirst ==
    /\ (AntiAliasingProbed \/ ExtProfileAttempted) => hist.baselineCurrent
    /\ cpc \in {"SetupAntiAliasing", "ProbeSamples", "AntiAliasingDone"} =>
           /\ stdRenderContext \in gl.alive
           /\ gl.current = stdRenderContext
    /\ (cpc \notin {"CreateContext", "SelectPixelFormat", "CreateStd"}
            /\ ~hist.baselineCurrent) =>
           /\ cpc = "Threw"
           /\ hist.probes = 0
           /\ hist.aaResult = "none"
           /\ hist.extResult = "none"
    /\ ctxError = "failed to create standard OpenGL render context" =>
           /\ cpc = "Threw"
           /\ hist.probes = 0
           /\ hist.aaResult = "none"
           /\ hist.extResult = "none"

\* C12 witness: a finished context that probed sample counts and created an
\* extended context.
ProbedBothAfterBaseline ==
    /\ cpc = "Done"
    /\ hist.probes > 0
    /\ hist.extResult = "created"
    /\ hist.baselineCurrent

\* C13: CreateContext ends either by throwing or with a non-null, live
\* hardware context in context_.hGLRC that is current on the device context
\* of the context's window; when the re-creation after the window
\* recreation failed and nothing replaced the standard context, it threw.
NeverPartiallyInitialized ==
    /\ cpc = "Done" =>
           /\ context_.hGLRC # 0
           /\ context_.hGLRC \in gl.alive
           /\ gl.current = context_.hGLRC
           /\ gl.dc = context_.window
           /\ ctxError = ""
    /\ cpc = "Threw" => ctxError # ""
    /\ (MsgNoMSContext \in hist.diag /\ hist.extResult # "created"
            /\ cpc \notin {"ExtProfile", "Activate"}) =>
           /\ cpc = "Threw"
           /\ ctxError = "failed to create OpenGL render context"

\* C13 witness: the re-creation after the window recreation failed and
\* CreateContext threw instead of completing.
RecreationFailedAndThrew ==
    /\ MsgNoMSContext \in hist.diag
    /\ cpc = "Threw"
    /\ context_.hGLRC = 0
    /\ ctxError = "failed to create OpenGL render context"

----------------------------------------------------------------------------
(* D3D11 texture claims *)

\* A call of CreateTexture that reached the native creation call.
NativeCallMade == texOp = "CreateTexture" /\ texOut.native # NoNative

\* The layer count the specification gives for a descriptor, as a number.
NormalizedLayers(d) ==
    CASE d.type \in {"Texture1D", "Texture2D"} -> 1
      [] d.type = "Texture1DArray" -> Layers1D(d)
      [] d.type = "Texture2DArray" -> Layers2D(d)
      [] d.type = "TextureCube" -> 6
      [] d.type = "TextureCubeArray" -> 6 * Layers2D(d)
      [] OTHER -> 1

\* C14: CreateTexture passes the normalized layer count to the native
\* creation call: 1 for Texture1D and Texture2D, the caller's count for
\* Texture1DArray and Texture2DArray, 6 for TextureCube and 6*N for a
\* TextureCubeArray of N array elements.
NativeLayerCountIsNormalized ==
    (NativeCallMade /\ textureDesc.type # "Texture3D")
        => texOut.native.ArraySize = NormalizedLayers(textureDesc)

\* What the code delivers: the normalized count modulo the width of the
\* unsigned layers member.
NativeLayerCountIsNormalizedModuloWidth ==
    (NativeCallMade /\ textureDesc.type # "Texture3D")
        => texOut.native.ArraySize = ToUInt(NormalizedLayers(textureDesc))

\* A cube array whose six-fold layer count wrapped was created natively.
WrappedCubeArrayCreated ==
    /\ NativeCallMade /\ texOut.status = "ok"
    /\ textureDesc.type = "TextureCubeArray"
    /\ 6 * Layers2D(textureDesc) >= UIntRange

\* A call of WriteTexture on a texture of the given type.
Wrote(type) == texOp = "WriteTexture" /\ texture.type = type

\* C15: for a Texture2DArray, WriteTexture with offset (x, y), layer offset
\* L, extent w by h and layer count n updates the box (x, y, L) to
\* (x+w, y+h, L+n).
Texture2DArrayBoxCoversLayers ==
    Wrote("Texture2DArray") =>
        LET sd == subTextureDesc
        IN texOut.box = [left |-> sd.x, top |-> sd.y, front |-> sd.layerOffset,
                         right |-> sd.x + sd.width, bottom |-> sd.y + sd.height,
                         back |-> sd.layerOffset + sd.layers]

\* Layer offset 3 over a 256 by 256 sub-rectangle of one layer: the box
\* runs from z = 3 to z = 4.
WroteLayerThreeOfArray ==
    /\ Wrote("Texture2DArray")
    /\ subTextureDesc.layerOffset = 3 /\ subTextureDesc.layers = 1
    /\ subTextureDesc.width = 256 /\ subTextureDesc.height = 256
    /\ texOut.box.front = 3 /\ texOut.box.back = 4
    /\ texOut.box.right = subTextureDesc.x + 256
    /\ texOut.box.bottom = subTextureDesc.y + 256

\* C16 as stated: for every array kind (Texture1DArray and Texture2DArray)
\* the update box carries the layer offset in the z slot and the layer count
\* as the z extent.
ArrayLayersInZSlot ==
    (Wrote("Texture1DArray") \/ Wrote("Texture2DArray")) =>
        /\ texOut.box.front = subTextureDesc.layerOffset
        /\ texOut.box.back - texOut.box.front = subTextureDesc.layers

\* C16: the update box of a Texture2DArray carries the layer offset in the z
\* slot and the layer count as the z extent; the box of a Texture1DArray
\* carries them in the y slot and as the y extent, with z from 0 to 1.
ArrayLayersSlotFollowsKind ==
    /\ Wrote("Texture2DArray") =>
          /\ texOut.box.front = subTextureDesc.layerOffset
          /\ texOut.box.back - texOut.box.front = subTextureDesc.layers
    /\ Wrote("Texture1DArray") =>
          /\ texOut.box.top = subTextureDesc.layerOffset
          /\ texOut.box.bottom - texOut.box.top = subTextureDesc.layers
          /\ texOut.box.front = 0 /\ texOut.box.back = 1

\* Two layers of a Texture1DArray written from layer 2 on: rows 2 to 4.
WroteLayersOfTexture1DArray ==
    /\ Wrote("Texture1DArray")
    /\ subTextureDesc.layerOffset = 2 /\ subTextureDesc.layers = 2
    /\ texOut.box.top = 2 /\ texOut.box.bottom = 4
    /\ texOut.box.front = 0 /\ texOut.box.back = 1

\* C17 as stated: for both cube kinds the z offset of the update box is
\* layerOffset*6 + faceIndex.
CubeZOffsetFoldsLayerAndFace ==
    (Wrote("TextureCube") \/ Wrote("TextureCubeArray")) =>
        texOut.box.front =
            subTextureDesc.layerOffset * 6 + subTextureDesc.cubeFaceOffset

\* C17: the z offset of the update box is layerOffset*6 + faceIndex for a
\* TextureCubeArray and the face index alone for a TextureCube, whose layer
\* offset is not used.
CubeZOffsetFollowsKind ==
    /\ Wrote("TextureCubeArray") =>
          texOut.box.front =
              subTextureDesc.layerOffset * 6 + subTextureDesc.cubeFaceOffset
    /\ Wrote("TextureCube") =>
          /\ texOut.box.front = subTextureDesc.cubeFaceOffset
          /\ texOut.box.back = subTextureDesc.cubeFaceOffset + 1

\* Face 5 of a plain cube written with a layer offset of 1: z is 5, not 11.
WroteCubeFaceWithLayerOffset ==
    /\ Wrote("TextureCube")
    /\ subTextureDesc.layerOffset = 1 /\ subTextureDesc.cubeFaceOffset = 5
    /\ texOut.box.front = 5

\* The descriptors the specification calls malformed: a dimension of the
\* texture's kind that is <= 0, a cube kind whose width differs from its
\* height, an array kind with a layer count of 0.
NonPositive(u) == ToInt(u) <= 0

MalformedDescriptor(d) ==
    \/ NonPositive(Width(d))
    \/ d.type \notin {"Texture1D", "Texture1DArray"} /\ NonPositive(Height(d))
    \/ d.type = "Texture3D" /\ NonPositive(Depth(d))
    \/ d.type \in {"TextureCube", "TextureCubeArray"} /\ Width(d) # Height(d)
    \/ d.type = "Texture1DArray" /\ Layers1D(d) = 0
    \/ d.type \in {"Texture2DArray", "TextureCubeArray"} /\ Layers2D(d) = 0

\* C18: texture creation with a malformed descriptor fails with
\* InvalidArgument before any native object is created or registered: no
\* native descriptor is handed to the native creation call and no texture
\* is registered.
MalformedDescriptorFailsBeforeNativeCall ==
    (texOp = "CreateTexture" /\ MalformedDescriptor(textureDesc)) =>
        /\ texOut.status = "invalid_argument"
        /\ texOut.native = NoNative
        /\ texture = NoTexture

\* What the code guarantees for a malformed descriptor of a valid type: it
\* is never rejected by CreateTexture itself.
MalformedDescriptorReachesNativeCall ==
    (/\ texOp = "CreateTexture" /\ MalformedDescriptor(textureDesc)
     /\ textureDesc.type \in TextureTypes) =>
        texOut.status # "invalid_argument" /\ texOut.native # NoNative

----------------------------------------------------------------------------
(* D3D11 flag translation claims *)

\* One of the two usage functions driven by the CPU access flags returned.
CPUAccessUsageReturned ==
    flagOp \in {"DXGetTextureUsage", "DXGetCPUAccessBufferUsage"}

\* C19: for every texture descriptor (DXGetTextureUsage) and every buffer
\* descriptor (DXGetCPUAccessBufferUsage) the usage is STAGING whenever
\* CPU read access is requested, also together with write access; DYNAMIC
\* when write access is requested without read access; DEFAULT when neither
\* is requested.
UsageFollowsCPUAccess ==
    CPUAccessUsageReturned =>
        /\ "Read" \in flagDesc.cpuAccessFlags =>
               flagOut.usage = "D3D11_USAGE_STAGING"
        /\ flagDesc.cpuAccessFlags = {"Write"} =>
               flagOut.usage = "D3D11_USAGE_DYNAMIC"
        /\ flagDesc.cpuAccessFlags = {} =>
               flagOut.usage = "D3D11_USAGE_DEFAULT"

\* A texture with read and write access got the staging usage.
ReadWriteTextureIsStaging ==
    /\ flagOp = "DXGetTextureUsage"
    /\ flagDesc.cpuAccessFlags = {"Read", "Write"}
    /\ flagOut.usage = "D3D11_USAGE_STAGING"

\* C20: DXGetTextureBindFlags gives depth-stencil precedence over
\* color/render-target: with DepthStencilAttachment the DEPTH_STENCIL bit is
\* set and the RENDER_TARGET bit is not, whatever ColorAttachment and the
\* mip chain are; the two bits are never set together.
DepthStencilTakesPrecedence ==
    flagOp = "DXGetTextureBindFlags" =>
        /\ "DepthStencilAttachment" \in flagDesc.bindFlags =>
               /\ "D3D11_BIND_DEPTH_STENCIL" \in flagOut.flags
               /\ "D3D11_BIND_RENDER_TARGET" \notin flagOut.flags
        /\ ~ {"D3D11_BIND_DEPTH_STENCIL", "D3D11_BIND_RENDER_TARGET"}
               \subseteq flagOut.flags

\* A mip-mapped depth-stencil texture that also asks for a color attachment
\* got the depth-stencil bit only.
DepthStencilWonOverColorAndMips ==
    /\ flagOp = "DXGetTextureBindFlags"
    /\ {"DepthStencilAttachment", "ColorAttachment"} \subseteq flagDesc.bindFlags
    /\ flagDesc.isMipMapped
    /\ "D3D11_BIND_DEPTH_STENCIL" \in flagOut.flags
    /\ "D3D11_BIND_RENDER_TARGET" \notin flagOut.flags

----------------------------------------------------------------------------
(* Claims on misc flags, buffer bind flags and the capability table *)

\* What DXGetTextureMiscFlags itself returns: GENERATE_MIPS if and only if
\* the texture is mip-mapped and no depth-stencil attachment is requested.
MiscFlagsFunctionLeavesOutDepthStencil ==
    flagOp = "DXGetTextureMiscFlags" =>
        ("D3D11_RESOURCE_MISC_GENERATE_MIPS" \in flagOut.flags
            <=> (flagDesc.isMipMapped
                 /\ "DepthStencilAttachment" \notin flagDesc.bindFlags))

EveryNativeTextureGeneratesMips ==
    NativeCallMade =>
        "D3D11_RESOURCE_MISC_GENERATE_MIPS" \in texOut.native.MiscFlags

\* The native bit the specification gives for each buffer bind flag.
BufferBindBitPairs ==
    {<<"VertexBuffer", "D3D11_BIND_VERTEX_BUFFER">>,
     <<"IndexBuffer", "D3D11_BIND_INDEX_BUFFER">>,
     <<"ConstantBuffer", "D3D11_BIND_CONSTANT_BUFFER">>,
     <<"StreamOutputBuffer", "D3D11_BIND_STREAM_OUTPUT">>,
     <<"SampleBuffer", "D3D11_BIND_SHADER_RESOURCE">>,
     <<"RWStorageBuffer", "D3D11_BIND_UNORDERED_ACCESS">>}

\* C22: DXGetBufferBindFlags sets a native bit only if its neutral bit is
\* set: each of the six buffer bind flags maps to exactly one native bit,
\* every other neutral bit is ignored without error.
BufferBindBitsMapOneToOne ==
    flagOp = "DXGetBufferBindFlags" =>
        /\ \A p \in BufferBindBitPairs :
              p[2] \in flagOut.flags <=> p[1] \in flagDesc.bindFlags
        /\ flagOut.flags \subseteq { p[2] : p \in BufferBindBitPairs }
        /\ Cardinality(flagOut.flags) =
              Cardinality(flagDesc.bindFlags \cap { p[1] : p \in BufferBindBitPairs })

\* {VertexBuffer, ConstantBuffer} together with bits a buffer does not know
\* gave exactly the vertex-buffer and constant-buffer bits.
VertexAndConstantBufferBitsOnly ==
    /\ flagOp = "DXGetBufferBindFlags"
    /\ flagDesc.bindFlags \cap { p[1] : p \in BufferBindBitPairs }
          = {"VertexBuffer", "ConstantBuffer"}
    /\ "ColorAttachment" \in flagDesc.bindFlags
    /\ flagOut.flags = {"D3D11_BIND_VERTEX_BUFFER", "D3D11_BIND_CONSTANT_BUFFER"}

\* The steps of the constructor that follow CreateDevice, and the
\* constructed render system.
PastCreateDevice ==
    devPc \in {"CreateGPUSynchObjects", "CreateRootSignature",
               "CreateDXCommandQueue", "constructed"}

\* All calls of a query so far returned the same value.
AllAgree(seen) == \A p, q \in seen : p.value = q.value

FeatureLevelKept == PastCreateDevice => featureLevel_' = featureLevel_

FailedSyncGPUThrows ==
    callFailed =>
        /\ syncPc = "idle"
        /\ syncResult = "threw"
        /\ fenceValue[syncCaller] = valueAtCall

\* The registration of the completion event failed after the Signal of the
\* call was enqueued with the caller's value 1: SyncGPU threw and the
\* caller's value is still 1.
SetEventFailedAfterSignal ==
    /\ callFailed /\ syncResult = "threw"
    /\ valueAtCall = 1 /\ fenceValue[syncCaller] = 1
    /\ cmdQueue # <<>> /\ cmdQueue[Len(cmdQueue)] = SignalCmd(1)

\* The capabilities of a RenderingCaps value: booleans, numeric limits and
\* the two vectors of limits.
BooleanCaps ==
    {"hasRenderTargets", "has3DTextures", "hasCubeTextures", "hasTextureArrays",
     "hasCubeTextureArrays", "hasSamplers", "hasConstantBuffers",
     "hasStorageBuffers", "hasUniforms", "hasGeometryShaders",
     "hasTessellationShaders", "hasComputeShaders", "hasInstancing",
     "hasOffsetInstancing", "hasViewportArrays", "hasConservativeRasterization"}

NumericCaps ==
    {"maxNumTextureArrayLayers", "maxNumRenderTargetAttachments",
     "maxConstantBufferSize", "max1DTextureSize", "max2DTextureSize",
     "max3DTextureSize", "maxCubeTextureSize", "maxAnisotropy"}

VectorCaps == {"maxNumComputeShaderWorkGroups", "maxComputeShaderWorkGroupSize"}

\* Every capability of lo is a capability of hi, every limit of lo is at
\* most the limit of hi.
CapsWithin(lo, hi) ==
    /\ \A f \in BooleanCaps : lo[f] => hi[f]
    /\ \A f \in NumericCaps : lo[f] <= hi[f]
    /\ \A f \in VectorCaps : \A i \in 1..3 : lo[f][i] <= hi[f][i]

\* C25: the capability table is monotone in the feature level: the table
\* returned at the negotiated level contains the table of every lower
\* candidate level and is contained in the table of every higher one.
CapsGrowWithFeatureLevel ==
    \A p \in capsSeen : \A i \in 1..Len(GetFeatureLevels) :
        LET other == GetFeatureLevels[i]
        IN /\ other <= featureLevel_ =>
                 CapsWithin(QueryRenderingCaps(other), p.value)
           /\ other >= featureLevel_ =>
                 CapsWithin(p.value, QueryRenderingCaps(other))

\* The table was queried at feature level 10_0, which has lower and higher
\* candidate levels with different tables.
QueriedCapsAtLevel10 ==
    /\ Constructed /\ featureLevel_ = D3D_FEATURE_LEVEL_10_0
    /\ \E p \in capsSeen :
          /\ p.value.hasGeometryShaders /\ ~p.value.hasTessellationShaders
          /\ p.value.maxCubeTextureSize = 8192
          /\ QueryRenderingCaps(D3D_FEATURE_LEVEL_9_1).maxCubeTextureSize = 512
          /\ QueryRenderingCaps(D3D_FEATURE_LEVEL_12_1).maxCubeTextureSize = 16384

----------------------------------------------------------------------------
(* Win32GLContext: termination and ownership claims *)

\* The loop of SelectPixelFormat is at an iteration that repeats itself: no
\* further list entry is taken, the held format is not zero (so the
\* standard format is not chosen), the window has rejected it and the
\* standard format was not used (so nothing is thrown).
SelectLoopsForever ==
    /\ cpc = "SelectPixelFormat"
    /\ ~TakesMSFormat(sel)
    /\ context_.pixelFormat # 0
    /\ context_.pixelFormat \in surf.bad
    /\ ~sel.wasStd

\* C26: SelectPixelFormat always terminates, with an accepted format or a
\* throw: it never loops forever and never reads the anti-aliased format
\* list past its end.
SelectPixelFormatTerminates == ~SelectLoopsForever /\ ~hist.pastEnd

\* The two parts on their own.
SelectPixelFormatNeverLoops == ~SelectLoopsForever
SelectPixelFormatStaysInList == ~hist.pastEnd

\* The loop repeats without any anti-aliased list: a format held from
\* before the call (selected on the window that was recreated, or copied
\* from the shared context) is rejected by the window.
HeldFormatNeverLoops == ~(SelectLoopsForever /\ ~sel.wantAA)

\* The hardware context of the prior context a context was given for
\* sharing (NoContext: none; 0: the prior has none).
PriorHardwareContext == IF sharedContext = NoContext THEN 0 ELSE sharedContext.hGLRC

\* C27: a context given a prior context for sharing never deletes the
\* prior's hardware context, neither on a creation path (also when
\* activating the reused context fails) nor on destruction.
PriorHardwareContextSurvives ==
    PriorHardwareContext # 0 => PriorHardwareContext \in gl.alive

\* The part of it about destruction: the destructor of a context leaves the
\* prior's hardware context alive.
DestructionSparesPrior ==
    [][(cpc' = "Destroyed" /\ PriorHardwareContext \in gl.alive)
          => PriorHardwareContext \in gl'.alive]_vars

\* The part of it about creation paths on which the reused context was
\* activated, or no context was reused.
CreationSparesPriorUnlessActivationFailed ==
    (PriorHardwareContext # 0 /\ MsgNotActivated \notin hist.diag)
        => PriorHardwareContext \in gl.alive

DestroyedReusingContext ==
    cpc = "Destroyed" /\ hasSharedContext_ /\ PriorHardwareContext \in gl.alive

\* The native contexts created during the negotiation of the current
\* context that are still alive.
AliveOfThisNegotiation ==
    { rc \in gl.alive : \E site \in {"std", "ms", "ext"} :
                           rc = NewHandle(ctxCount, site) }

SamplesNotRaised == ctxCount' = ctxCount => desc_'.samples <= desc_.samples

\* The probes made and the probes the loop can still make never exceed the
\* requested sample count R.
ProbesBounded ==
    /\ hist.probes <= hist.queriedSamples
    /\ cpc = "ProbeSamples" =>
           /\ desc_.samples > 0
           /\ hist.probes + desc_.samples <= hist.queriedSamples

\* C29: SetupAntiAliasing terminates after at most R probes, R the
\* requested sample count; the sample count never increases and stays
\* within 0..R; it returns false only when no sample count could be
\* negotiated.
SetupAntiAliasingStepsDownAndStops ==
    /\ [](/\ ProbesBounded
          /\ desc_.samples \in 0..hist.queriedSamples
          /\ hist.aaResult = "false" =>
                 (SupportedUpToRequested = {} /\ hist.probes = 0))
    /\ [][SamplesNotRaised]_vars

ProbedEveryCountDownToZero ==
    /\ cpc = "AntiAliasingDone"
    /\ hist.queriedSamples = MaxSamples
    /\ hist.probes = MaxSamples
    /\ desc_.samples = 0

----------------------------------------------------------------------------
(* D3D11RenderSystem: reading a texture descriptor back *)

\* A query answered for a texture whose creation descriptor is still known.
QueriedAfterCreate ==
    texOp = "QueryTextureDescriptor" /\ textureDesc # NoTextureDesc

CubeArrayRoundTripsAtAnyCount ==
    (QueriedAfterCreate /\ textureDesc.type = "TextureCubeArray")
        => Layers2D(texOut.desc) = Layers2D(textureDesc)

=============================================================================
